---- MODULE Spec2Model ----
(***************************************************************************)
(* Universal video proxy (plugins/universal-video-proxy): the allow-list,  *)
(* the request signer, the bounded TTL cache and the request handlers.     *)
(*                                                                         *)
(* Strings are sequences of one-character strings, so that prefix, suffix, *)
(* split and escape operations are computed character by character.        *)
(***************************************************************************)
EXTENDS Integers, Sequences, FiniteSets, TLC

VARIABLES
    now,      \* time.Now(), in whole seconds
    call,     \* the last operation performed: its inputs and what it returned
    signer,   \* the *signer.Signer of the process
    issued,   \* the token last returned by Generate, with who generated it and when
    cache,    \* the *cache.Cache under test
    hist,     \* history: the New arguments of the cache under test, each key's
              \* last set and last use, and the number of calls made
    config,   \* the *config.Config of the server
    srv,      \* the server's caches: m3u8Cache, keyCache, tsCache
    mu,       \* the sync.RWMutex of the cache under test: who holds it
    thr       \* the goroutines calling the cache under test: where each one is

vars == <<now, call, signer, issued, cache, hist, config, srv, mu, thr>>

-----------------------------------------------------------------------------
(* strings package                                                         *)

Range(s) == { s[i] : i \in 1..Len(s) }

HasPrefix(s, prefix) ==
    Len(s) >= Len(prefix) /\ SubSeq(s, 1, Len(prefix)) = prefix

HasSuffix(s, suffix) ==
    Len(s) >= Len(suffix) /\ SubSeq(s, Len(s) - Len(suffix) + 1, Len(s)) = suffix

\* strings.IndexByte: the first position of c in s, 0 when absent
Index(s, c) ==
    IF \E i \in 1..Len(s) : s[i] = c
    THEN CHOOSE i \in 1..Len(s) : s[i] = c /\ \A j \in 1..(i - 1) : s[j] # c
    ELSE 0

\* strings.LastIndexByte: the last position of c in s, 0 when absent
LastIndex(s, c) ==
    IF \E i \in 1..Len(s) : s[i] = c
    THEN CHOOSE i \in 1..Len(s) : s[i] = c /\ \A j \in (i + 1)..Len(s) : s[j] # c
    ELSE 0

\* s[from:] with a 1-based first position
From(s, from) == SubSeq(s, from, Len(s))

\* s[:upto] keeping positions 1..upto
UpTo(s, upto) == SubSeq(s, 1, upto)

Space == { " ", "\t", "\n", "\r" }

RECURSIVE TrimLeft(_)
TrimLeft(s) == IF s # <<>> /\ s[1] \in Space THEN TrimLeft(Tail(s)) ELSE s

RECURSIVE TrimRight(_)
TrimRight(s) ==
    IF s # <<>> /\ s[Len(s)] \in Space THEN TrimRight(UpTo(s, Len(s) - 1)) ELSE s

TrimSpace(s) == TrimRight(TrimLeft(s))

Letters == { "a", "b", "c", "d", "e", "f", "g", "h", "i", "j", "k", "l", "m",
             "n", "o", "p", "q", "r", "s", "t", "u", "v", "w", "x", "y", "z",
             "A", "B", "C", "D", "E", "F", "G", "H", "I", "J", "K", "L", "M",
             "N", "O", "P", "Q", "R", "S", "T", "U", "V", "W", "X", "Y", "Z" }

Digits == { "0", "1", "2", "3", "4", "5", "6", "7", "8", "9" }

-----------------------------------------------------------------------------
(* net/url: Parse and Hostname                                             *)

\* getScheme: [err, scheme, rest]
RECURSIVE getSchemeAt(_, _)
getSchemeAt(rawURL, i) ==
    IF i > Len(rawURL) THEN [err |-> FALSE, scheme |-> <<>>, rest |-> rawURL]
    ELSE LET c == rawURL[i] IN
         IF c \in Letters THEN getSchemeAt(rawURL, i + 1)
         ELSE IF c \in Digits \cup { "+", "-", "." }
              THEN IF i = 1 THEN [err |-> FALSE, scheme |-> <<>>, rest |-> rawURL]
                   ELSE getSchemeAt(rawURL, i + 1)
         ELSE IF c = ":"
              THEN IF i = 1 THEN [err |-> TRUE, scheme |-> <<>>, rest |-> <<>>]
                   ELSE [err |-> FALSE, scheme |-> UpTo(rawURL, i - 1),
                         rest |-> From(rawURL, i + 1)]
         ELSE [err |-> FALSE, scheme |-> <<>>, rest |-> rawURL]

getScheme(rawURL) == getSchemeAt(rawURL, 1)

\* validOptionalPort: "" or ":" followed by digits only
validOptionalPort(port) ==
    port = <<>> \/ (port[1] = ":" /\ \A i \in 2..Len(port) : port[i] \in Digits)

\* the ASCII characters unescape(host, encodeHost) rejects in a host name
InvalidHostChars == { " ", "\t", "\n", "\r", "|", "%", "^", "{", "}",
                      "/", "?", "#", "@" }

\* parseHost (names only, no IP literals): [err, host]
parseHost(host) ==
    LET i == LastIndex(host, ":") IN
    IF i # 0 /\ ~validOptionalPort(From(host, i)) THEN [err |-> TRUE, host |-> <<>>]
    ELSE IF \E j \in 1..Len(host) : host[j] \in InvalidHostChars
         THEN [err |-> TRUE, host |-> <<>>]
    ELSE [err |-> FALSE, host |-> host]

\* parseAuthority: the host is what follows the last "@", the userinfo what
\* precedes it: [err, host, user]
parseAuthority(authority) ==
    LET i == LastIndex(authority, "@")
        h == IF i = 0 THEN parseHost(authority) ELSE parseHost(From(authority, i + 1))
    IN [err |-> h.err, host |-> h.host,
        user |-> IF i = 0 THEN <<>> ELSE UpTo(authority, i - 1)]

\* strings.Cut(s, c): what precedes the first c (all of s when c is absent)
CutBefore(s, c) == IF Index(s, c) = 0 THEN s ELSE UpTo(s, Index(s, c) - 1)

\* what follows the first c (empty when c is absent)
CutAfter(s, c) == IF Index(s, c) = 0 THEN <<>> ELSE From(s, Index(s, c) + 1)

BadURL == [err |-> TRUE, Scheme |-> <<>>, User |-> <<>>, Host |-> <<>>,
           Path |-> <<>>, Opaque |-> <<>>, RawQuery |-> <<>>, Fragment |-> <<>>]

\* url.Parse: [err, Scheme, User, Host, Path, Opaque, RawQuery, Fragment]
ParseURL(rawURL) ==
    LET noFrag == CutBefore(rawURL, "#")
        frag   == CutAfter(rawURL, "#")
        sch    == getScheme(noFrag)
    IN
    IF sch.err THEN BadURL
    ELSE
    LET rest  == CutBefore(sch.rest, "?")
        query == CutAfter(sch.rest, "?")
        url   == [err |-> FALSE, Scheme |-> sch.scheme, User |-> <<>>, Host |-> <<>>,
                  Path |-> <<>>, Opaque |-> <<>>, RawQuery |-> query,
                  Fragment |-> frag]
    IN
    IF ~HasPrefix(rest, <<"/">>) /\ sch.scheme # <<>>
    THEN [url EXCEPT !.Opaque = rest]
    ELSE IF ~HasPrefix(rest, <<"/">>) /\ ":" \in Range(CutBefore(rest, "/"))
    THEN BadURL
    ELSE IF (sch.scheme # <<>> \/ ~HasPrefix(rest, <<"/", "/", "/">>))
            /\ HasPrefix(rest, <<"/", "/">>)
    THEN LET afterSlashes == From(rest, 3)
             authority    == CutBefore(afterSlashes, "/")
             path         == From(afterSlashes, Len(authority) + 1)
             a            == parseAuthority(authority)
         IN IF a.err THEN BadURL
            ELSE [url EXCEPT !.User = a.user, !.Host = a.host, !.Path = path]
    ELSE [url EXCEPT !.Path = rest]

\* (*URL).Hostname: Host without a valid port
Hostname(u) ==
    LET colon == LastIndex(u.Host, ":") IN
    IF colon # 0 /\ validOptionalPort(From(u.Host, colon))
    THEN UpTo(u.Host, colon - 1)
    ELSE u.Host

-----------------------------------------------------------------------------
(* internal/util                                                           *)

\* the suffix test without the separating dot
IsAllowedHost_NoDot(targetURL, allowHosts) ==
    IF Len(allowHosts) = 0 THEN FALSE
    ELSE LET parsed == ParseURL(targetURL) IN
         IF parsed.err THEN FALSE
         ELSE LET hostname == Hostname(parsed) IN
              \E i \in 1..Len(allowHosts) :
                  hostname = allowHosts[i] \/ HasSuffix(hostname, allowHosts[i])

IsAllowedHost(targetURL, allowHosts) ==
    IF Len(allowHosts) = 0 THEN FALSE
    ELSE LET parsed == ParseURL(targetURL) IN
         IF parsed.err THEN FALSE
         ELSE LET hostname == Hostname(parsed) IN
              \E i \in 1..Len(allowHosts) :
                  \/ hostname = allowHosts[i]
                  \/ HasSuffix(hostname, <<".">> \o allowHosts[i])

HttpPrefix  == <<"h", "t", "t", "p", ":", "/", "/">>
HttpsPrefix == <<"h", "t", "t", "p", "s", ":", "/", "/">>

SanitizeURL(input) ==
    LET trimmed == TrimSpace(input) IN
    IF trimmed = <<>> THEN <<>>
    ELSE IF ~HasPrefix(trimmed, HttpPrefix) /\ ~HasPrefix(trimmed, HttpsPrefix)
         THEN <<>>
    ELSE trimmed

-----------------------------------------------------------------------------
(* strconv and the 64-bit integers of Signer.Verify, at a reduced width     *)

IntBits == 6                          \* the width standing for int64's 64
MinInt  == -(2 ^ (IntBits - 1))
MaxInt  == 2 ^ (IntBits - 1) - 1

\* two's-complement wrap of a result into the integer width
WrapInt(x) == ((x - MinInt) % (2 ^ IntBits)) + MinInt

DigitChars == <<"0", "1", "2", "3", "4", "5", "6", "7", "8", "9">>
DigitVal(c) == CHOOSE d \in 0..9 : DigitChars[d + 1] = c

RECURSIVE FormatUint(_)
FormatUint(n) ==
    IF n < 10 THEN <<DigitChars[n + 1]>>
    ELSE FormatUint(n \div 10) \o <<DigitChars[(n % 10) + 1]>>

\* strconv.FormatInt(n, 10)
FormatInt(n) == IF n < 0 THEN <<"-">> \o FormatUint(-n) ELSE FormatUint(n)

RECURSIVE UintVal(_)
UintVal(s) ==
    IF s = <<>> THEN 0 ELSE 10 * UintVal(UpTo(s, Len(s) - 1)) + DigitVal(s[Len(s)])

RECURSIVE StripZeros(_)
StripZeros(s) == IF Len(s) > 1 /\ s[1] = "0" THEN StripZeros(Tail(s)) ELSE s

\* strconv.ParseInt(s, 10, bits): [err, val]
ParseIntBits(s, bits) ==
    LET neg  == s # <<>> /\ s[1] = "-"
        body == IF s # <<>> /\ s[1] \in { "+", "-" } THEN Tail(s) ELSE s
        fail == [err |-> TRUE, val |-> 0]
    IN
    IF body = <<>> THEN fail
    ELSE IF \E i \in 1..Len(body) : body[i] \notin Digits THEN fail
    ELSE IF Len(StripZeros(body)) > 9 THEN fail
    ELSE LET un == UintVal(StripZeros(body)) IN
         IF ~neg /\ un > 2 ^ (bits - 1) - 1 THEN fail
         ELSE IF neg /\ un > 2 ^ (bits - 1) THEN fail
         ELSE [err |-> FALSE, val |-> IF neg THEN -un ELSE un]

\* the timestamp of a request, parsed at the width the expiry test computes in
ParseInt(s) == ParseIntBits(s, IntBits)

WideBits == 30                        \* a width no length or offset of the model reaches

\* strconv.Atoi and ParseInt for lengths and offsets
Atoi(s) == ParseIntBits(s, WideBits)

-----------------------------------------------------------------------------
(* internal/signer                                                         *)

\* hex.EncodeToString(HMAC-SHA256(payload, secret)): one opaque symbol per
\* (secret, payload), distinct for distinct pairs
HmacHex(secret, payload) == << "hmac" \o ToString(<<secret, payload>>) >>

SignerNew(secret, ttlSeconds, enabled) ==
    [secret |-> secret, ttlSeconds |-> ttlSeconds, enabled |-> enabled]

ErrNil            == "nil"
ErrDisabled       == "signing is disabled"
ErrMissing        == "missing signature parameters"
ErrInvalidTs      == "invalid timestamp"
ErrExpired        == "signature expired"
ErrMismatch       == "signature mismatch"

\* Signer.Generate at time t: [sign, ts, err]
Generate(s, url, t) ==
    IF ~s.enabled THEN [sign |-> <<>>, ts |-> <<>>, err |-> ErrDisabled]
    ELSE LET ts      == FormatInt(t)
             payload == url \o <<"|">> \o ts
         IN [sign |-> HmacHex(s.secret, payload), ts |-> ts, err |-> ErrNil]

\* Verify comparing the signature over the url alone
Verify_NoTsInPayload(s, url, sign, ts, t) ==
    IF ~s.enabled THEN ErrNil
    ELSE IF sign = <<>> \/ ts = <<>> THEN ErrMissing
    ELSE LET timestamp == ParseInt(ts) IN
         IF timestamp.err THEN ErrInvalidTs
         ELSE IF WrapInt(t - timestamp.val) > s.ttlSeconds THEN ErrExpired
         ELSE IF sign # HmacHex(s.secret, url) THEN ErrMismatch
         ELSE ErrNil

\* Verify that checks the signature whether or not signing is enabled
Verify_ChecksWhenDisabled(s, url, sign, ts, t) ==
    IF sign = <<>> \/ ts = <<>> THEN ErrMissing
    ELSE LET timestamp == ParseInt(ts) IN
         IF timestamp.err THEN ErrInvalidTs
         ELSE IF WrapInt(t - timestamp.val) > s.ttlSeconds THEN ErrExpired
         ELSE LET payload      == url \o <<"|">> \o ts
                  expectedSign == HmacHex(s.secret, payload)
              IN IF sign # expectedSign THEN ErrMismatch ELSE ErrNil

\* Signer.Verify at time t: the error returned
Verify(s, url, sign, ts, t) ==
    IF ~s.enabled THEN ErrNil
    ELSE IF sign = <<>> \/ ts = <<>> THEN ErrMissing
    ELSE LET timestamp == ParseInt(ts) IN
         IF timestamp.err THEN ErrInvalidTs
         ELSE IF WrapInt(t - timestamp.val) > s.ttlSeconds THEN ErrExpired
         ELSE LET payload      == url \o <<"|">> \o ts
                  expectedSign == HmacHex(s.secret, payload)
              IN IF sign # expectedSign THEN ErrMismatch ELSE ErrNil

-----------------------------------------------------------------------------
(* internal/cache over hashicorp/golang-lru: items holds the entries, most *)
(* recently used first                                                     *)

Keys(items) == { items[i].key : i \in 1..Len(items) }

PosOf(items, key) == CHOOSE i \in 1..Len(items) : items[i].key = key

Without(items, key) ==
    LET keep == { i \in 1..Len(items) : items[i].key # key }
        F[n \in 0..Len(items)] ==
            IF n = 0 THEN <<>>
            ELSE IF n \in keep THEN F[n - 1] \o <<items[n]>> ELSE F[n - 1]
    IN F[Len(items)]

\* lru.Get that leaves the recency order alone
lruGet_NoTouch(items, key) ==
    IF key \in Keys(items)
    THEN [items |-> items, found |-> TRUE, value |-> items[PosOf(items, key)]]
    ELSE [items |-> items, found |-> FALSE, value |-> [key |-> key, data |-> <<>>, expiresAt |-> 0]]

\* lru.Get: [items, found, value]; a hit moves the entry to the front
lruGet(items, key) ==
    IF key \in Keys(items)
    THEN LET e == items[PosOf(items, key)] IN
         [items |-> <<e>> \o Without(items, key), found |-> TRUE, value |-> e]
    ELSE [items |-> items, found |-> FALSE, value |-> [key |-> key, data |-> <<>>, expiresAt |-> 0]]

\* lru.Remove
lruRemove(items, key) == Without(items, key)

\* lru.Add that never evicts
lruAdd_NoEvict(items, size, e) == <<e>> \o Without(items, e.key)

\* lru.Add: an existing key is updated and moved to the front; a new key is
\* pushed to the front and the oldest entry removed when size is exceeded
lruAdd(items, size, e) ==
    IF e.key \in Keys(items) THEN <<e>> \o Without(items, e.key)
    ELSE LET added == <<e>> \o items IN
         IF Len(added) > size THEN UpTo(added, Len(added) - 1) ELSE added

\* cache.New that keeps the enabled flag whatever maxEntries is
CacheNew_FlagOnly(maxEntries, ttlSeconds, enabled) ==
    [enabled |-> enabled, size |-> maxEntries, ttl |-> ttlSeconds, items |-> <<>>]

\* cache.New
CacheNew(maxEntries, ttlSeconds, enabled) ==
    IF ~enabled \/ maxEntries <= 0
    THEN [enabled |-> FALSE, size |-> 0, ttl |-> 0, items |-> <<>>]
    ELSE [enabled |-> enabled, size |-> maxEntries, ttl |-> ttlSeconds, items |-> <<>>]

\* Cache.Get that serves an entry whatever its expiry
CacheGet_NoExpiry(c, key, t) ==
    IF ~c.enabled THEN [cache |-> c, data |-> <<>>, found |-> FALSE]
    ELSE LET g == lruGet(c.items, key) IN
         IF ~g.found THEN [cache |-> [c EXCEPT !.items = g.items], data |-> <<>>, found |-> FALSE]
         ELSE [cache |-> [c EXCEPT !.items = g.items], data |-> g.value.data, found |-> TRUE]

\* Cache.Get at time t: [cache, data, found]
CacheGet(c, key, t) ==
    IF ~c.enabled THEN [cache |-> c, data |-> <<>>, found |-> FALSE]
    ELSE LET g == lruGet(c.items, key) IN
         IF ~g.found \/ t > g.value.expiresAt
         THEN [cache |-> [c EXCEPT !.items = IF g.found THEN lruRemove(g.items, key)
                                              ELSE g.items],
               data |-> <<>>, found |-> FALSE]
         ELSE [cache |-> [c EXCEPT !.items = g.items], data |-> g.value.data,
               found |-> TRUE]

\* Cache.Set at time t: the cache afterwards
CacheSet(c, key, data, t) ==
    IF ~c.enabled THEN c
    ELSE LET entry == [key |-> key, data |-> data, expiresAt |-> t + c.ttl] IN
         [c EXCEPT !.items = lruAdd(c.items, c.size, entry)]

\* Cache.IsEnabled
CacheIsEnabled(c) == c.enabled

-----------------------------------------------------------------------------
(* net/url: reference resolution, String, query escaping and parsing       *)

\* strings.Split(s, c) for a one-character separator
RECURSIVE Split(_, _)
Split(s, c) ==
    IF Index(s, c) = 0 THEN <<s>>
    ELSE <<UpTo(s, Index(s, c) - 1)>> \o Split(From(s, Index(s, c) + 1), c)

\* strings.Join(parts, sep)
RECURSIVE Join(_, _)
Join(parts, sep) ==
    IF parts = <<>> THEN <<>>
    ELSE IF Len(parts) = 1 THEN parts[1]
    ELSE parts[1] \o sep \o Join(Tail(parts), sep)

\* strings.Contains
Contains(s, sub) ==
    \E i \in 1..(Len(s) - Len(sub) + 1) : SubSeq(s, i, i + Len(sub) - 1) = sub

\* the loop of resolvePath over the "/"-separated elements of full, after
\* the leading "/" was written: dst is what was written after it
RECURSIVE resolveElems(_, _, _)
resolveElems(elems, dst, first) ==
    IF elems = <<>> THEN dst
    ELSE LET elem == Head(elems) IN
         IF elem = <<".">> THEN resolveElems(Tail(elems), dst, FALSE)
         ELSE IF elem = <<".", ".">>
              THEN LET index == LastIndex(dst, "/") IN
                   IF index = 0 THEN resolveElems(Tail(elems), <<>>, TRUE)
                   ELSE resolveElems(Tail(elems), UpTo(dst, index - 1), first)
         ELSE resolveElems(Tail(elems),
                           (IF first THEN dst ELSE dst \o <<"/">>) \o elem, FALSE)

\* resolvePath(base, ref)
resolvePath(base, ref) ==
    LET full == IF ref = <<>> THEN base
                ELSE IF ref[1] # "/" THEN UpTo(base, LastIndex(base, "/")) \o ref
                ELSE ref
    IN
    IF full = <<>> THEN <<>>
    ELSE LET elems == Split(full, "/")
             last  == elems[Len(elems)]
             body  == resolveElems(elems, <<>>, TRUE)
             r     == <<"/">> \o body
                      \o (IF last = <<".">> \/ last = <<".", ".">> THEN <<"/">> ELSE <<>>)
         IN IF Len(r) > 1 /\ r[2] = "/" THEN Tail(r) ELSE r

\* (*URL).ResolveReference
ResolveReference(u, ref) ==
    LET url == [ref EXCEPT !.Scheme = IF ref.Scheme = <<>> THEN u.Scheme ELSE @] IN
    IF ref.Scheme # <<>> \/ ref.Host # <<>> \/ ref.User # <<>>
    THEN [url EXCEPT !.Path = resolvePath(ref.Path, <<>>)]
    ELSE IF ref.Opaque # <<>>
    THEN [url EXCEPT !.User = <<>>, !.Host = <<>>, !.Path = <<>>]
    ELSE LET inherit == ref.Path = <<>> /\ ref.RawQuery = <<>>
             url2 == [url EXCEPT
                         !.RawQuery = IF inherit THEN u.RawQuery ELSE @,
                         !.Fragment = IF inherit /\ ref.Fragment = <<>>
                                      THEN u.Fragment ELSE @]
         IN IF ref.Path = <<>> /\ u.Opaque # <<>>
            THEN [url2 EXCEPT !.Opaque = u.Opaque, !.User = <<>>, !.Host = <<>>,
                              !.Path = <<>>]
            ELSE [url2 EXCEPT !.Host = u.Host, !.User = u.User,
                              !.Path = resolvePath(u.Path, ref.Path)]

\* (*URL).String, for paths and hosts that need no escaping
URLString(u) ==
    (IF u.Scheme # <<>> THEN u.Scheme \o <<":">> ELSE <<>>)
    \o (IF u.Opaque # <<>> THEN u.Opaque
        ELSE (IF (u.Scheme # <<>> \/ u.Host # <<>> \/ u.User # <<>>)
                 /\ (u.Host # <<>> \/ u.Path # <<>> \/ u.User # <<>>)
              THEN <<"/", "/">>
                   \o (IF u.User # <<>> THEN u.User \o <<"@">> ELSE <<>>)
                   \o u.Host
              ELSE <<>>)
             \o (IF u.Path # <<>> /\ u.Path[1] # "/" /\ u.Host # <<>>
                 THEN <<"/">> ELSE <<>>)
             \o u.Path)
    \o (IF u.RawQuery # <<>> THEN <<"?">> \o u.RawQuery ELSE <<>>)
    \o (IF u.Fragment # <<>> THEN <<"#">> \o u.Fragment ELSE <<>>)

\* the characters QueryEscape writes as %XX, with their two hex digits
EscapeTable ==
    [c \in { ":", "/", "?", "=", "&", "%", "+", "|", "#", "\"", ",", "@", "\n" } |->
        CASE c = ":"  -> <<"3", "A">>
          [] c = "/"  -> <<"2", "F">>
          [] c = "?"  -> <<"3", "F">>
          [] c = "="  -> <<"3", "D">>
          [] c = "&"  -> <<"2", "6">>
          [] c = "%"  -> <<"2", "5">>
          [] c = "+"  -> <<"2", "B">>
          [] c = "|"  -> <<"7", "C">>
          [] c = "#"  -> <<"2", "3">>
          [] c = "\"" -> <<"2", "2">>
          [] c = ","  -> <<"2", "C">>
          [] c = "@"  -> <<"4", "0">>
          [] c = "\n" -> <<"0", "A">>]

\* url.QueryEscape: letters, digits, "-", "_", ".", "~" (and the symbols that
\* stand for hex digests) are kept, " " becomes "+", the rest %XX
RECURSIVE QueryEscape(_)
QueryEscape(s) ==
    IF s = <<>> THEN <<>>
    ELSE LET c == Head(s) IN
         (IF c = " " THEN <<"+">>
          ELSE IF c \in DOMAIN EscapeTable THEN <<"%">> \o EscapeTable[c]
          ELSE <<c>>) \o QueryEscape(Tail(s))

\* url.QueryUnescape: [err, s]
RECURSIVE QueryUnescape(_)
QueryUnescape(s) ==
    IF s = <<>> THEN [err |-> FALSE, s |-> <<>>]
    ELSE IF Head(s) = "%"
    THEN IF Len(s) >= 3 /\ \E c \in DOMAIN EscapeTable : EscapeTable[c] = SubSeq(s, 2, 3)
         THEN LET c    == CHOOSE d \in DOMAIN EscapeTable : EscapeTable[d] = SubSeq(s, 2, 3)
                  rest == QueryUnescape(From(s, 4))
              IN [err |-> rest.err, s |-> <<c>> \o rest.s]
         ELSE [err |-> TRUE, s |-> <<>>]
    ELSE LET rest == QueryUnescape(Tail(s)) IN
         [err |-> rest.err, s |-> <<IF Head(s) = "+" THEN " " ELSE Head(s)>> \o rest.s]

\* url.ParseQuery: the decoded (key, value) pairs, in order; a pair that does
\* not decode is dropped
RECURSIVE parseQueryPairs(_)
parseQueryPairs(pairs) ==
    IF pairs = <<>> THEN <<>>
    ELSE LET kv == Head(pairs)
             k  == QueryUnescape(CutBefore(kv, "="))
             v  == QueryUnescape(CutAfter(kv, "="))
         IN (IF kv = <<>> \/ k.err \/ v.err THEN <<>>
             ELSE << [key |-> k.s, value |-> v.s] >>)
            \o parseQueryPairs(Tail(pairs))

ParseQuery(query) == parseQueryPairs(Split(query, "&"))

\* url.Values.Get: the first value of key, "" when absent
QueryGet(values, key) ==
    IF \E i \in 1..Len(values) : values[i].key = key
    THEN values[CHOOSE i \in 1..Len(values) :
                    values[i].key = key /\ \A j \in 1..(i - 1) : values[j].key # key].value
    ELSE <<>>

-----------------------------------------------------------------------------
(* internal/util, continued                                                *)

UpperLetters == <<"A", "B", "C", "D", "E", "F", "G", "H", "I", "J", "K", "L", "M",
                  "N", "O", "P", "Q", "R", "S", "T", "U", "V", "W", "X", "Y", "Z">>
LowerLetters == <<"a", "b", "c", "d", "e", "f", "g", "h", "i", "j", "k", "l", "m",
                  "n", "o", "p", "q", "r", "s", "t", "u", "v", "w", "x", "y", "z">>

\* strings.ToLower
ToLower(s) ==
    [i \in 1..Len(s) |->
        IF s[i] \in Range(UpperLetters)
        THEN LowerLetters[CHOOSE n \in 1..26 : UpperLetters[n] = s[i]]
        ELSE s[i]]

MimeHLS    == "application/vnd.apple.mpegurl"
MimeTS     == "video/mp2t"
MimeMP4    == "video/mp4"
MimeOctet  == "application/octet-stream"

GetContentType(url) ==
    LET lower == ToLower(url) IN
    IF Contains(lower, <<".", "m", "3", "u", "8">>) THEN MimeHLS
    ELSE IF Contains(lower, <<".", "t", "s">>) THEN MimeTS
    ELSE IF Contains(lower, <<".", "m", "p", "4">>) THEN MimeMP4
    ELSE IF Contains(lower, <<".", "k", "e", "y">>) THEN MimeOctet
    ELSE MimeOctet

BuildSignParams(sign, ts) ==
    IF sign = <<>> \/ ts = <<>> THEN <<>>
    ELSE <<"s", "i", "g", "n", "=">> \o QueryEscape(sign)
         \o <<"&", "t", "s", "=">> \o QueryEscape(ts)

-----------------------------------------------------------------------------
(* internal/rewrite                                                        *)

NewM3U8Rewriter(baseURL, segPrefix, keyPrefix, signParams) ==
    [baseURL |-> baseURL, segPrefix |-> segPrefix, keyPrefix |-> keyPrefix,
     signParams |-> signParams]

\* resolveURL that hands every reference back as written
resolveURL_AsWritten(urlStr, baseURL) == urlStr

resolveURL(urlStr, baseURL) ==
    IF HasPrefix(urlStr, HttpPrefix) \/ HasPrefix(urlStr, HttpsPrefix) THEN urlStr
    ELSE LET base == ParseURL(baseURL) IN
         IF base.err THEN urlStr
         ELSE LET ref == ParseURL(urlStr) IN
              IF ref.err THEN urlStr
              ELSE URLString(ResolveReference(base, ref))

buildSegmentURL(r, segmentURL) ==
    r.baseURL \o r.segPrefix \o <<"?", "u", "=">> \o QueryEscape(segmentURL)
    \o (IF r.signParams # <<>> THEN <<"&">> \o r.signParams ELSE <<>>)

\* buildKeyURL that leaves the sign parameters out
buildKeyURL_NoSignParams(r, keyURL) ==
    r.baseURL \o r.keyPrefix \o <<"?", "u", "=">> \o QueryEscape(keyURL)

buildKeyURL(r, keyURL) ==
    r.baseURL \o r.keyPrefix \o <<"?", "u", "=">> \o QueryEscape(keyURL)
    \o (IF r.signParams # <<>> THEN <<"&">> \o r.signParams ELSE <<>>)

UriEq     == <<"U", "R", "I", "=">>
ExtXKey   == <<"#", "E", "X", "T", "-", "X", "-", "K", "E", "Y", ":">>
ExtM3U    == <<"#", "E", "X", "T", "M", "3", "U">>

rewriteKeyLine(r, line, baseURL) ==
    LET parts == Split(line, ",")
        rewritePart(p) ==
            LET part == TrimSpace(p) IN
            IF HasPrefix(part, UriEq)
            THEN LET uriPart == From(part, 5) IN
                 IF Len(uriPart) >= 2 /\ uriPart[1] = "\"" /\ uriPart[Len(uriPart)] = "\""
                 THEN UriEq \o <<"\"">>
                      \o buildKeyURL(r, resolveURL(SubSeq(uriPart, 2, Len(uriPart) - 1),
                                                   baseURL))
                      \o <<"\"">>
                 ELSE p
            ELSE p
    IN Join([i \in 1..Len(parts) |-> rewritePart(parts[i])], <<",">>)

\* Rewrite that looks for a URI attribute in every directive
Rewrite_EveryDirective(r, content, originalURL) ==
    LET lines == Split(content, "\n")
        rewriteLine(l) ==
            LET line == TrimSpace(l) IN
            IF line = <<>> \/ HasPrefix(line, <<"#">>)
            THEN rewriteKeyLine(r, line, originalURL)
            ELSE buildSegmentURL(r, resolveURL(line, originalURL))
    IN Join([i \in 1..Len(lines) |-> rewriteLine(lines[i])], <<"\n">>)

\* M3U8Rewriter.Rewrite
Rewrite(r, content, originalURL) ==
    LET lines == Split(content, "\n")
        rewriteLine(l) ==
            LET line == TrimSpace(l) IN
            IF line = <<>> \/ HasPrefix(line, <<"#">>)
            THEN IF HasPrefix(line, ExtXKey) THEN rewriteKeyLine(r, line, originalURL)
                 ELSE line
            ELSE buildSegmentURL(r, resolveURL(line, originalURL))
    IN Join([i \in 1..Len(lines) |-> rewriteLine(lines[i])], <<"\n">>)

\* bufio.MaxScanTokenSize: a line this long fills the buffer of a Scanner, and
\* Scan stops with ErrTooLong
MaxScanTokenSize == 65536

\* IsM3U8Content: scanning the lines, #EXTM3U before any content line
RECURSIVE isM3U8Lines(_)
isM3U8Lines(lines) ==
    IF lines = <<>> THEN FALSE
    ELSE IF Len(Head(lines)) >= MaxScanTokenSize THEN FALSE
    ELSE LET line == TrimSpace(Head(lines)) IN
         IF HasPrefix(line, ExtM3U) THEN TRUE
         ELSE IF line # <<>> /\ ~HasPrefix(line, <<"#">>) THEN FALSE
         ELSE isM3U8Lines(Tail(lines))

IsM3U8Content(content) == isM3U8Lines(Split(content, "\n"))

-----------------------------------------------------------------------------
(* values left alone by a specification that does not use them             *)

NoSigner == [secret |-> <<>>, ttlSeconds |-> 0, enabled |-> FALSE]
NoCache  == [enabled |-> FALSE, size |-> 0, ttl |-> 0, items |-> <<>>]
NoCall   == [fn |-> "none"]
NoToken  == [some |-> FALSE]
NoHist   == [ops |-> 0]
NoConfig == [AllowHosts |-> <<>>]
NoServer == [m3u8Cache |-> NoCache, keyCache |-> NoCache, tsCache |-> NoCache]
NoLock   == [readers |-> {}, writer |-> 0]
NoThreads == <<>>

-----------------------------------------------------------------------------
(* main: the Server and its handlers.  A request r is [url, sign, ts,      *)
(* range]: the decoded query parameters and the Range header.  An upstream *)
(* answer up is [err, status, contentLength, contentType, body].  A        *)
(* handler returns [resp, srv]: the response and the caches afterwards.    *)

SegCacheLimit == 1048576              \* 1024*1024: segments this large are not cached

Response(status, body, ctype) ==
    [status |-> status, body |-> body, ctype |-> ctype, crange |-> <<>>,
     hit |-> FALSE, fetched |-> FALSE]

\* http.Error(w, msg, code): a plain-text error, no resource bytes
HttpError(status) == Response(status, <<>>, "text/plain")

BytesEq == <<"b", "y", "t", "e", "s", "=">>

\* Server.handleRangeRequest
handleRangeRequest(content, ctype, rangeHeader) ==
    LET contentLength == Len(content)
        unsat == Response(416, <<>>, ctype)
    IN
    IF ~HasPrefix(rangeHeader, BytesEq) THEN unsat
    ELSE LET parts == Split(From(rangeHeader, 7), "-") IN
         IF Len(parts) # 2 THEN unsat
         ELSE LET s0 == Atoi(parts[1])
                  e0 == Atoi(parts[2])
                  start == IF parts[1] # <<>> THEN s0.val ELSE 0
                  end   == IF parts[2] # <<>> THEN e0.val ELSE contentLength - 1
              IN
              IF parts[1] # <<>> /\ (s0.err \/ s0.val < 0) THEN unsat
              ELSE IF parts[2] # <<>> /\ (e0.err \/ e0.val >= contentLength) THEN unsat
              ELSE IF start > end THEN unsat
              ELSE [Response(206, SubSeq(content, start + 1, end + 1), ctype)
                       EXCEPT !.crange = <<"b", "y", "t", "e", "s", " ">>
                                         \o FormatInt(start) \o <<"-">> \o FormatInt(end)
                                         \o <<"/">> \o FormatInt(contentLength)]

\* Server.streamContent
streamContent(r, content, contentType) ==
    IF r.range # <<>> THEN handleRangeRequest(content, contentType, r.range)
    ELSE Response(200, content, contentType)

\* Server.fetchContent without the check of the declared length
fetchContent_IgnoresLength(targetURL, up) ==
    LET fail == [err |-> TRUE, content |-> <<>>, contentType |-> <<>>] IN
    IF ParseURL(targetURL).err THEN fail
    ELSE IF up.err THEN fail
    ELSE IF up.status # 200 THEN fail
    ELSE [err |-> FALSE, content |-> up.body,
          contentType |-> IF up.contentType = <<>> THEN GetContentType(targetURL)
                          ELSE up.contentType]

\* Server.fetchContent on the upstream answer up: [err, content, contentType]
fetchContent(targetURL, up) ==
    LET fail == [err |-> TRUE, content |-> <<>>, contentType |-> <<>>]
        declared == Atoi(up.contentLength)
    IN
    IF ParseURL(targetURL).err THEN fail
    ELSE IF up.err THEN fail
    ELSE IF up.status # 200 THEN fail
    ELSE IF up.contentLength # <<>> /\ ~declared.err
            /\ declared.val > config.MaxPlaylistKB * 1024 THEN fail
    ELSE [err |-> FALSE, content |-> up.body,
          contentType |-> IF up.contentType = <<>> THEN GetContentType(targetURL)
                          ELSE up.contentType]

SegPrefix == <<"/", "s", "e", "g">>
KeyPrefix == <<"/", "k", "e", "y">>

\* Server.handlePlay from the cache lookup on (run.sh 200-241)
servePlay(r, up, targetURL) ==
    LET got    == CacheGet(srv.m3u8Cache, targetURL, now)
        srv1   == [srv EXCEPT !.m3u8Cache = got.cache]
        f      == fetchContent(targetURL, up)
    IN
    IF got.found
    THEN [resp |-> [Response(200, got.data, MimeHLS) EXCEPT !.hit = TRUE], srv |-> srv1]
    ELSE IF f.err
    THEN [resp |-> [HttpError(502) EXCEPT !.fetched = TRUE], srv |-> srv1]
    ELSE IF config.EnableM3U8 /\ IsM3U8Content(f.content)
    THEN LET signParams == BuildSignParams(r.sign, r.ts)
             rewriter   == NewM3U8Rewriter(<<>>, SegPrefix, KeyPrefix, signParams)
             rewritten  == Rewrite(rewriter, f.content, targetURL)
         IN [resp |-> [Response(200, rewritten, MimeHLS) EXCEPT !.fetched = TRUE],
             srv  |-> [srv1 EXCEPT !.m3u8Cache = CacheSet(@, targetURL, rewritten, now)]]
    ELSE [resp |-> [streamContent(r, f.content, f.contentType) EXCEPT !.fetched = TRUE],
          srv  |-> srv1]

\* Server.handlePlay answering from the playlist cache before it verifies
handlePlay_CacheFirst(r, up) ==
    LET targetURL == SanitizeURL(r.url)
        same(resp) == [resp |-> resp, srv |-> srv]
    IN
    IF r.url = <<>> THEN same(HttpError(400))
    ELSE IF targetURL = <<>> THEN same(HttpError(400))
    ELSE IF Len(targetURL) > config.MaxURLLength THEN same(HttpError(400))
    ELSE IF ~IsAllowedHost(targetURL, config.AllowHosts) THEN same(HttpError(403))
    ELSE IF CacheGet(srv.m3u8Cache, targetURL, now).found THEN servePlay(r, up, targetURL)
    ELSE IF Verify(signer, targetURL, r.sign, r.ts, now) # ErrNil THEN same(HttpError(401))
    ELSE servePlay(r, up, targetURL)

\* Server.handlePlay
handlePlay(r, up) ==
    LET targetURL == SanitizeURL(r.url)
        same(resp) == [resp |-> resp, srv |-> srv]
    IN
    IF r.url = <<>> THEN same(HttpError(400))
    ELSE IF targetURL = <<>> THEN same(HttpError(400))
    ELSE IF Len(targetURL) > config.MaxURLLength THEN same(HttpError(400))
    ELSE IF ~IsAllowedHost(targetURL, config.AllowHosts) THEN same(HttpError(403))
    ELSE IF Verify(signer, targetURL, r.sign, r.ts, now) # ErrNil THEN same(HttpError(401))
    ELSE servePlay(r, up, targetURL)

\* Server.handleSegment verifying the signature before it looks at the host
handleSegment_VerifyFirst(r, up) ==
    LET targetURL == SanitizeURL(r.url)
        same(resp) == [resp |-> resp, srv |-> srv]
    IN
    IF r.url = <<>> THEN same(HttpError(400))
    ELSE IF targetURL = <<>> THEN same(HttpError(400))
    ELSE IF Verify(signer, targetURL, r.sign, r.ts, now) # ErrNil THEN same(HttpError(401))
    ELSE IF ~IsAllowedHost(targetURL, config.AllowHosts) THEN same(HttpError(403))
    ELSE
    LET got    == CacheGet(srv.tsCache, targetURL, now)
        srv1   == [srv EXCEPT !.tsCache = got.cache]
        f      == fetchContent(targetURL, up)
    IN
    IF got.found
    THEN [resp |-> [Response(200, got.data, GetContentType(targetURL)) EXCEPT !.hit = TRUE],
          srv  |-> srv1]
    ELSE IF f.err
    THEN [resp |-> [HttpError(502) EXCEPT !.fetched = TRUE], srv |-> srv1]
    ELSE [resp |-> [streamContent(r, f.content, f.contentType) EXCEPT !.fetched = TRUE],
          srv  |-> IF CacheIsEnabled(srv1.tsCache) /\ Len(f.content) < SegCacheLimit
                   THEN [srv1 EXCEPT !.tsCache = CacheSet(@, targetURL, f.content, now)]
                   ELSE srv1]

\* Server.handleSegment caching a segment only when it is two bytes or more
\* under 1 MB
handleSegment_LimitOneLess(r, up) ==
    LET targetURL == SanitizeURL(r.url)
        same(resp) == [resp |-> resp, srv |-> srv]
    IN
    IF r.url = <<>> THEN same(HttpError(400))
    ELSE IF targetURL = <<>> THEN same(HttpError(400))
    ELSE IF ~IsAllowedHost(targetURL, config.AllowHosts) THEN same(HttpError(403))
    ELSE IF Verify(signer, targetURL, r.sign, r.ts, now) # ErrNil THEN same(HttpError(401))
    ELSE
    LET got    == CacheGet(srv.tsCache, targetURL, now)
        srv1   == [srv EXCEPT !.tsCache = got.cache]
        f      == fetchContent(targetURL, up)
    IN
    IF got.found
    THEN [resp |-> [Response(200, got.data, GetContentType(targetURL)) EXCEPT !.hit = TRUE],
          srv  |-> srv1]
    ELSE IF f.err
    THEN [resp |-> [HttpError(502) EXCEPT !.fetched = TRUE], srv |-> srv1]
    ELSE [resp |-> [streamContent(r, f.content, f.contentType) EXCEPT !.fetched = TRUE],
          srv  |-> IF CacheIsEnabled(srv1.tsCache) /\ Len(f.content) < SegCacheLimit - 1
                   THEN [srv1 EXCEPT !.tsCache = CacheSet(@, targetURL, f.content, now)]
                   ELSE srv1]

\* Server.handleSegment rewriting a fetched playlist the way handlePlay does
handleSegment_Rewrites(r, up) ==
    LET targetURL == SanitizeURL(r.url)
        same(resp) == [resp |-> resp, srv |-> srv]
    IN
    IF r.url = <<>> THEN same(HttpError(400))
    ELSE IF targetURL = <<>> THEN same(HttpError(400))
    ELSE IF ~IsAllowedHost(targetURL, config.AllowHosts) THEN same(HttpError(403))
    ELSE IF Verify(signer, targetURL, r.sign, r.ts, now) # ErrNil THEN same(HttpError(401))
    ELSE
    LET got    == CacheGet(srv.tsCache, targetURL, now)
        srv1   == [srv EXCEPT !.tsCache = got.cache]
        f      == fetchContent(targetURL, up)
        rewriter == NewM3U8Rewriter(<<>>, SegPrefix, KeyPrefix, BuildSignParams(r.sign, r.ts))
        served == IF config.EnableM3U8 /\ IsM3U8Content(f.content)
                  THEN Rewrite(rewriter, f.content, targetURL)
                  ELSE f.content
    IN
    IF got.found
    THEN [resp |-> [Response(200, got.data, GetContentType(targetURL)) EXCEPT !.hit = TRUE],
          srv  |-> srv1]
    ELSE IF f.err
    THEN [resp |-> [HttpError(502) EXCEPT !.fetched = TRUE], srv |-> srv1]
    ELSE [resp |-> [streamContent(r, served, f.contentType) EXCEPT !.fetched = TRUE],
          srv  |-> IF CacheIsEnabled(srv1.tsCache) /\ Len(f.content) < SegCacheLimit
                   THEN [srv1 EXCEPT !.tsCache = CacheSet(@, targetURL, f.content, now)]
                   ELSE srv1]

\* Server.handleSegment
handleSegment(r, up) ==
    LET targetURL == SanitizeURL(r.url)
        same(resp) == [resp |-> resp, srv |-> srv]
    IN
    IF r.url = <<>> THEN same(HttpError(400))
    ELSE IF targetURL = <<>> THEN same(HttpError(400))
    ELSE IF ~IsAllowedHost(targetURL, config.AllowHosts) THEN same(HttpError(403))
    ELSE IF Verify(signer, targetURL, r.sign, r.ts, now) # ErrNil THEN same(HttpError(401))
    ELSE
    LET got    == CacheGet(srv.tsCache, targetURL, now)
        srv1   == [srv EXCEPT !.tsCache = got.cache]
        f      == fetchContent(targetURL, up)
    IN
    IF got.found
    THEN [resp |-> [Response(200, got.data, GetContentType(targetURL)) EXCEPT !.hit = TRUE],
          srv  |-> srv1]
    ELSE IF f.err
    THEN [resp |-> [HttpError(502) EXCEPT !.fetched = TRUE], srv |-> srv1]
    ELSE [resp |-> [streamContent(r, f.content, f.contentType) EXCEPT !.fetched = TRUE],
          srv  |-> IF CacheIsEnabled(srv1.tsCache) /\ Len(f.content) < SegCacheLimit
                   THEN [srv1 EXCEPT !.tsCache = CacheSet(@, targetURL, f.content, now)]
                   ELSE srv1]

\* Server.handleKey storing what it has before it looks at the fetch error
handleKey_StoresFailure(r, up) ==
    LET targetURL == SanitizeURL(r.url)
        same(resp) == [resp |-> resp, srv |-> srv]
    IN
    IF r.url = <<>> THEN same(HttpError(400))
    ELSE IF targetURL = <<>> THEN same(HttpError(400))
    ELSE IF ~IsAllowedHost(targetURL, config.AllowHosts) THEN same(HttpError(403))
    ELSE IF Verify(signer, targetURL, r.sign, r.ts, now) # ErrNil THEN same(HttpError(401))
    ELSE
    LET got    == CacheGet(srv.keyCache, targetURL, now)
        srv1   == [srv EXCEPT !.keyCache = got.cache]
        f      == fetchContent(targetURL, up)
        srv2   == [srv1 EXCEPT !.keyCache = CacheSet(@, targetURL, f.content, now)]
    IN
    IF got.found
    THEN [resp |-> [Response(200, got.data, MimeOctet) EXCEPT !.hit = TRUE], srv |-> srv1]
    ELSE IF f.err
    THEN [resp |-> [HttpError(502) EXCEPT !.fetched = TRUE], srv |-> srv2]
    ELSE [resp |-> [Response(200, f.content, MimeOctet) EXCEPT !.fetched = TRUE],
          srv  |-> srv2]

\* Server.handleKey looking up and storing in the segment cache
handleKey_UsesSegCache(r, up) ==
    LET targetURL == SanitizeURL(r.url)
        same(resp) == [resp |-> resp, srv |-> srv]
    IN
    IF r.url = <<>> THEN same(HttpError(400))
    ELSE IF targetURL = <<>> THEN same(HttpError(400))
    ELSE IF ~IsAllowedHost(targetURL, config.AllowHosts) THEN same(HttpError(403))
    ELSE IF Verify(signer, targetURL, r.sign, r.ts, now) # ErrNil THEN same(HttpError(401))
    ELSE
    LET got    == CacheGet(srv.tsCache, targetURL, now)
        srv1   == [srv EXCEPT !.tsCache = got.cache]
        f      == fetchContent(targetURL, up)
    IN
    IF got.found
    THEN [resp |-> [Response(200, got.data, MimeOctet) EXCEPT !.hit = TRUE], srv |-> srv1]
    ELSE IF f.err
    THEN [resp |-> [HttpError(502) EXCEPT !.fetched = TRUE], srv |-> srv1]
    ELSE [resp |-> [Response(200, f.content, MimeOctet) EXCEPT !.fetched = TRUE],
          srv  |-> [srv1 EXCEPT !.tsCache = CacheSet(@, targetURL, f.content, now)]]

\* Server.handleKey
handleKey(r, up) ==
    LET targetURL == SanitizeURL(r.url)
        same(resp) == [resp |-> resp, srv |-> srv]
    IN
    IF r.url = <<>> THEN same(HttpError(400))
    ELSE IF targetURL = <<>> THEN same(HttpError(400))
    ELSE IF ~IsAllowedHost(targetURL, config.AllowHosts) THEN same(HttpError(403))
    ELSE IF Verify(signer, targetURL, r.sign, r.ts, now) # ErrNil THEN same(HttpError(401))
    ELSE
    LET got    == CacheGet(srv.keyCache, targetURL, now)
        srv1   == [srv EXCEPT !.keyCache = got.cache]
        f      == fetchContent(targetURL, up)
    IN
    IF got.found
    THEN [resp |-> [Response(200, got.data, MimeOctet) EXCEPT !.hit = TRUE], srv |-> srv1]
    ELSE IF f.err
    THEN [resp |-> [HttpError(502) EXCEPT !.fetched = TRUE], srv |-> srv1]
    ELSE [resp |-> [Response(200, f.content, MimeOctet) EXCEPT !.fetched = TRUE],
          srv  |-> [srv1 EXCEPT !.keyCache = CacheSet(@, targetURL, f.content, now)]]

\* Server.handleRaw with the signature check of the other endpoints
handleRaw_Verifies(r, up) ==
    LET targetURL == SanitizeURL(r.url)
        same(resp) == [resp |-> resp, srv |-> srv]
        f == fetchContent(targetURL, up)
    IN
    IF r.url = <<>> THEN same(HttpError(400))
    ELSE IF targetURL = <<>> THEN same(HttpError(400))
    ELSE IF ~IsAllowedHost(targetURL, config.AllowHosts) THEN same(HttpError(403))
    ELSE IF Verify(signer, targetURL, r.sign, r.ts, now) # ErrNil THEN same(HttpError(401))
    ELSE IF f.err THEN same([HttpError(502) EXCEPT !.fetched = TRUE])
    ELSE same([streamContent(r, f.content, f.contentType) EXCEPT !.fetched = TRUE])

\* Server.handleRaw
handleRaw(r, up) ==
    LET targetURL == SanitizeURL(r.url)
        same(resp) == [resp |-> resp, srv |-> srv]
        f == fetchContent(targetURL, up)
    IN
    IF r.url = <<>> THEN same(HttpError(400))
    ELSE IF targetURL = <<>> THEN same(HttpError(400))
    ELSE IF ~IsAllowedHost(targetURL, config.AllowHosts) THEN same(HttpError(403))
    ELSE IF f.err THEN same([HttpError(502) EXCEPT !.fetched = TRUE])
    ELSE same([streamContent(r, f.content, f.contentType) EXCEPT !.fetched = TRUE])

PlayURLEq == <<"/", "p", "l", "a", "y", "?", "u", "r", "l", "=">>

\* Server.handleSign without the allow-list check
handleSign_NoAllowList(r) ==
    LET rawURL == SanitizeURL(r.url)
        same(resp) == [resp |-> resp, srv |-> srv]
        g == Generate(signer, rawURL, now)
    IN
    IF ~signer.enabled THEN same(HttpError(403))
    ELSE IF r.url = <<>> THEN same(HttpError(400))
    ELSE IF rawURL = <<>> THEN same(HttpError(400))
    ELSE IF g.err # ErrNil THEN same(HttpError(500))
    ELSE same(Response(200,
                       PlayURLEq \o QueryEscape(rawURL)
                       \o <<"&", "s", "i", "g", "n", "=">> \o g.sign
                       \o <<"&", "t", "s", "=">> \o g.ts,
                       "application/json"))

\* Server.handleSign: the body of a 200 answer is the proxy URL of the JSON
handleSign(r) ==
    LET rawURL == SanitizeURL(r.url)
        same(resp) == [resp |-> resp, srv |-> srv]
        g == Generate(signer, rawURL, now)
    IN
    IF ~signer.enabled THEN same(HttpError(403))
    ELSE IF r.url = <<>> THEN same(HttpError(400))
    ELSE IF rawURL = <<>> THEN same(HttpError(400))
    ELSE IF ~IsAllowedHost(rawURL, config.AllowHosts) THEN same(HttpError(403))
    ELSE IF g.err # ErrNil THEN same(HttpError(500))
    ELSE same(Response(200,
                       PlayURLEq \o QueryEscape(rawURL)
                       \o <<"&", "s", "i", "g", "n", "=">> \o g.sign
                       \o <<"&", "t", "s", "=">> \o g.ts,
                       "application/json"))

\* Server.handleHealth: {"status":"ok","time":<now>}; the body stands for the
\* time field
handleHealth ==
    [resp |-> Response(200, FormatInt(now), "application/json"), srv |-> srv]

-----------------------------------------------------------------------------
(* SpecAllow: util.IsAllowedHost applied to URLs and allow lists           *)

HostH  == <<"h", ".", "c">>          \* the allow-listed host h.c
HostO  == <<"o", ".", "c">>          \* an unrelated host o.c
PathA  == <<"/", "a">>

AllowURLInputs ==
    { HttpPrefix \o HostH \o PathA,                          \* http://h.c/a
      HttpsPrefix \o <<"x", ".">> \o HostH \o PathA,         \* https://x.h.c/a
      HttpPrefix \o <<"e">> \o HostH \o PathA,               \* http://eh.c/a
      HttpPrefix \o HostH \o <<".", "e">> \o PathA,          \* http://h.c.e/a
      HttpPrefix \o HostO \o PathA,                          \* http://o.c/a
      HttpPrefix \o HostH \o <<":", "8", "0">> \o PathA,     \* http://h.c:80/a
      HttpPrefix \o HostH \o <<":", "p">> \o PathA,          \* http://h.c:p/a
      HttpPrefix \o <<"u", "@">> \o HostH \o PathA,          \* http://u@h.c/a
      HttpPrefix \o HostH \o <<"@">> \o HostO \o PathA,      \* http://h.c@o.c/a
      HttpPrefix \o <<"h", " ", "c">> \o PathA,              \* http://h c/a
      HostH \o PathA,                                        \* h.c/a
      HttpPrefix \o HostH \o <<".">> \o PathA,               \* http://h.c./a
      HttpPrefix \o HostO \o <<"/">> \o HostH,               \* http://o.c/h.c
      HttpPrefix \o HostO \o <<"?", ".">> \o HostH,          \* http://o.c?.h.c
      HttpPrefix \o HostO \o <<"#", ".">> \o HostH,          \* http://o.c#.h.c
      HttpPrefix \o HostH,                                   \* http://h.c
      <<"h", "t", "t", "p", ":">> \o HostH,                  \* http:h.c
      <<":">> \o HostH,                                      \* :h.c
      HttpPrefix \o PathA,                                   \* http:///a
      <<>> }

AllowListInputs ==
    { <<>>, <<HostH>>, <<HostO, HostH>>, <<<<"c">>>>, <<<<>>>>, <<<<"e">>>> }

AllowCall(u, a) ==
    /\ call' = [fn |-> "IsAllowedHost", url |-> u, allowHosts |-> a,
                ret |-> IsAllowedHost(u, a)]
    /\ UNCHANGED <<now, signer, issued, cache, hist, config, srv, mu, thr>>

InitAllow ==
    /\ now = 0
    /\ call = NoCall
    /\ signer = NoSigner
    /\ issued = NoToken
    /\ cache = NoCache
    /\ hist = NoHist
    /\ config = NoConfig
    /\ srv = NoServer
    /\ mu = NoLock
    /\ thr = NoThreads

NextAllow == \E u \in AllowURLInputs, a \in AllowListInputs : AllowCall(u, a)

SpecAllow == InitAllow /\ [][NextAllow]_vars

\* the strings that end with "." followed by entry, stated by construction
EndsWithDotEntry(host, entry) ==
    \E n \in 0..Len(host) : host = UpTo(host, n) \o <<".">> \o entry

\* C3: IsAllowedHost is true iff the URL parses and its hostname, port
\* stripped, equals an entry of the allow set or ends with "." + entry; an
\* empty allow set and a malformed URL give false; a host that ends with an
\* entry without the separating dot is denied.
C3_AllowedIffHostMatches ==
    call.fn = "IsAllowedHost" =>
        LET parsed == ParseURL(call.url)
            host   == Hostname(parsed)
        IN
        /\ call.ret = (/\ ~parsed.err
                       /\ \E e \in Range(call.allowHosts) :
                              host = e \/ EndsWithDotEntry(host, e))
        /\ call.allowHosts = <<>> => call.ret = FALSE
        /\ parsed.err => call.ret = FALSE
        /\ (call.allowHosts = <<HostH>> /\ ~parsed.err /\ host = <<"e">> \o HostH)
               => call.ret = FALSE
        /\ ":" \notin Range(host)

C3_Witness ==
    /\ call.fn = "IsAllowedHost"
    /\ call.allowHosts = <<HostO, HostH>>
    /\ call.url = HttpsPrefix \o <<"x", ".">> \o HostH \o PathA
    /\ call.ret = TRUE

-----------------------------------------------------------------------------
(* SpecSigner: one verifying Signer, tokens generated with the same or     *)
(* another secret, and a clock                                             *)

MaxNow   == 3                         \* the clock runs over 0..MaxNow
SignTTL  == 2                         \* sign.ttlSeconds of the configuration

SecretA == <<"k", "1">>
SecretB == <<"k", "2">>

URLPlain == HttpPrefix \o HostH \o PathA                 \* http://h.c/a
URLBar   == HttpPrefix \o HostH \o PathA \o <<"|", "1">> \* http://h.c/a|1
SignURLs == { URLPlain, URLBar }

\* one character of a signature replaced by another
MutateSign(sign) ==
    IF sign = <<>> THEN <<"0">> ELSE << "~" \o sign[1] >> \o Tail(sign)

\* the timestamps a caller may present
TsInputs ==
    { <<>>, <<"x">>, <<"1", "|", "1">> }
    \cup { FormatInt(n) : n \in (0..(MaxNow + 1)) \cup { -1, MinInt, MinInt + 1, MaxInt } }
    \cup (IF issued.some THEN { issued.ts, <<"+">> \o issued.ts, <<"0">> \o issued.ts }
          ELSE {})

\* the signatures a caller may present for (url, ts)
SignInputs(url, ts) ==
    { <<>>, HmacHex(signer.secret, url \o <<"|">> \o ts) }
    \cup (IF issued.some THEN { issued.sign, MutateSign(issued.sign) } ELSE {})

SignerTick ==
    /\ now < MaxNow
    /\ now' = now + 1
    /\ UNCHANGED <<call, signer, issued, cache, hist, config, srv, mu, thr>>

\* Generate by a Signer that has the verifier's settings and the secret given
SignerGenerate(url, secret) ==
    LET g == Generate(SignerNew(secret, signer.ttlSeconds, signer.enabled), url, now) IN
    /\ call' = [fn |-> "Generate", url |-> url, at |-> now, sign |-> g.sign,
                ts |-> g.ts, ret |-> g.err]
    /\ issued' = IF g.err = ErrNil
                 THEN [some |-> TRUE, url |-> url, sign |-> g.sign, ts |-> g.ts,
                       secret |-> secret, at |-> now]
                 ELSE issued
    /\ UNCHANGED <<now, signer, cache, hist, config, srv, mu, thr>>

SignerVerify(url, sign, ts) ==
    /\ call' = [fn |-> "Verify", url |-> url, at |-> now, sign |-> sign, ts |-> ts,
                ret |-> Verify(signer, url, sign, ts, now)]
    /\ UNCHANGED <<now, signer, issued, cache, hist, config, srv, mu, thr>>

InitSigner ==
    /\ now = 0
    /\ call = NoCall
    /\ signer \in { SignerNew(SecretA, SignTTL, e) : e \in BOOLEAN }
    /\ issued = NoToken
    /\ cache = NoCache
    /\ hist = NoHist
    /\ config = NoConfig
    /\ srv = NoServer
    /\ mu = NoLock
    /\ thr = NoThreads

NextSigner ==
    \/ SignerTick
    \/ \E url \in SignURLs, secret \in { SecretA, SecretB } : SignerGenerate(url, secret)
    \/ \E url \in SignURLs, ts \in TsInputs :
           \E sign \in SignInputs(url, ts) : SignerVerify(url, sign, ts)

SpecSigner == InitSigner /\ [][NextSigner]_vars

\* the last call verified exactly the token last generated
PresentsIssued ==
    /\ call.fn = "Verify" /\ issued.some
    /\ call.url = issued.url /\ call.sign = issued.sign /\ call.ts = issued.ts

\* C4: with signing enabled, Verify accepts the (sign, ts) Generate returned
\* for the url while now - ts <= ttl, and rejects when the verifier's secret
\* differs from the generator's, when ts is any other value, when sign is not
\* the generated one, or when the url is not the signed one.
C4_VerifyGenerateRoundTrip ==
    (signer.enabled /\ call.fn = "Verify" /\ issued.some) =>
        /\ (PresentsIssued /\ issued.secret = signer.secret
            /\ call.at - issued.at <= signer.ttlSeconds) => call.ret = ErrNil
        /\ (PresentsIssued /\ issued.secret # signer.secret) => call.ret # ErrNil
        /\ (issued.secret = signer.secret /\ call.url = issued.url
            /\ call.sign = issued.sign /\ call.ts # issued.ts) => call.ret # ErrNil
        /\ (issued.secret = signer.secret /\ call.url = issued.url
            /\ call.sign # issued.sign /\ call.ts = issued.ts) => call.ret # ErrNil
        /\ (issued.secret = signer.secret /\ call.url # issued.url
            /\ call.sign = issued.sign /\ call.ts = issued.ts) => call.ret # ErrNil

C4_Witness ==
    /\ signer.enabled /\ PresentsIssued /\ issued.secret = signer.secret
    /\ call.at - issued.at = signer.ttlSeconds
    /\ call.ret = ErrNil

\* the last call verified a token whose signature is the right one for its
\* url and timestamp
OtherwiseCorrect ==
    /\ call.fn = "Verify" /\ signer.enabled
    /\ ~ParseInt(call.ts).err
    /\ call.sign = HmacHex(signer.secret, call.url \o <<"|">> \o call.ts)

\* C5: with signing enabled, an otherwise correct token fails at every instant
\* with now - ts > ttl and succeeds at every instant with now - ts <= ttl, a
\* future ts included.
C5_ExpiryExactlyAtTTL ==
    OtherwiseCorrect =>
        (call.ret # ErrNil <=> call.at - ParseInt(call.ts).val > signer.ttlSeconds)

-----------------------------------------------------------------------------
(* SpecCache: one Cache driven by Get and Set calls as time passes         *)

CacheCap == 2                         \* the largest maxEntries tried
CacheTTL == 1                         \* ttlSeconds of the cache
MaxOps   == 4                         \* Get and Set calls in one run
CacheMaxNow == 2                      \* the clock runs over 0..CacheMaxNow

CacheKeys == { <<"k", "1">>, <<"k", "2">>, <<"k", "3">> }
CacheData == { <<"d", "1">>, <<"d", "2">> }

CacheTick ==
    /\ now < CacheMaxNow
    /\ now' = now + 1
    /\ UNCHANGED <<call, signer, issued, cache, hist, config, srv, mu, thr>>

CacheDoGet(key) ==
    LET r == CacheGet(cache, key, now) IN
    /\ hist.ops < MaxOps
    /\ cache' = r.cache
    /\ call' = [fn |-> "Get", key |-> key, at |-> now, found |-> r.found,
                data |-> r.data, before |-> cache.items, usesBefore |-> hist.lastUse]
    /\ hist' = [hist EXCEPT !.ops = @ + 1,
                            !.lastUse[key] = IF r.found THEN hist.ops + 1 ELSE @]
    /\ UNCHANGED <<now, signer, issued, config, srv, mu, thr>>

CacheDoSet(key, data) ==
    /\ hist.ops < MaxOps
    /\ cache' = CacheSet(cache, key, data, now)
    /\ call' = [fn |-> "Set", key |-> key, at |-> now, found |-> FALSE,
                data |-> data, before |-> cache.items, usesBefore |-> hist.lastUse]
    /\ hist' = [hist EXCEPT !.ops = @ + 1,
                            !.lastUse[key] = hist.ops + 1,
                            !.lastSet[key] = [some |-> TRUE, data |-> data, at |-> now]]
    /\ UNCHANGED <<now, signer, issued, config, srv, mu, thr>>

InitCache ==
    /\ now = 0
    /\ call = NoCall
    /\ signer = NoSigner
    /\ issued = NoToken
    /\ \E maxEntries \in 0..CacheCap, enabled \in BOOLEAN :
           /\ cache = CacheNew(maxEntries, CacheTTL, enabled)
           /\ hist = [ops |-> 0,
                      maxEntries |-> maxEntries, ttlSeconds |-> CacheTTL,
                      enabled |-> enabled,
                      lastUse |-> [k \in CacheKeys |-> 0],
                      lastSet |-> [k \in CacheKeys |->
                                      [some |-> FALSE, data |-> <<>>, at |-> 0]]]
    /\ config = NoConfig
    /\ srv = NoServer
    /\ mu = NoLock
    /\ thr = NoThreads

NextCache ==
    \/ CacheTick
    \/ \E key \in CacheKeys : CacheDoGet(key)
    \/ \E key \in CacheKeys, data \in CacheData : CacheDoSet(key, data)

SpecCache == InitCache /\ [][NextCache]_vars

\* the cache was created enabled with a positive capacity
CreatedEnabled == hist.enabled /\ hist.maxEntries >= 1

\* C7: on an enabled cache Get returns found only for a key that is present
\* and not past the expiry of its most recent Set (time of that Set + TTL),
\* and then returns exactly the bytes of that Set; a present entry past its
\* expiry gives not-found and is gone afterwards.
C7_GetServesOnlyLiveLastSet ==
    (call.fn = "Get" /\ CreatedEnabled) =>
        LET last == hist.lastSet[call.key] IN
        /\ call.found =>
               /\ call.key \in Keys(call.before)
               /\ last.some
               /\ call.at <= last.at + hist.ttlSeconds
               /\ call.data = last.data
        /\ (call.key \in Keys(call.before) /\ call.at > last.at + hist.ttlSeconds) =>
               /\ ~call.found
               /\ call.key \notin Keys(cache.items)

C7_Witness ==
    /\ call.fn = "Get" /\ CreatedEnabled
    /\ call.key \in Keys(call.before)
    /\ call.at > hist.lastSet[call.key].at + hist.ttlSeconds
    /\ ~call.found
    /\ Len(call.before) = 2

EntryOf(items, key) == items[CHOOSE i \in 1..Len(items) : items[i].key = key]

\* the key of the given set whose most recent use is the oldest
OldestUse(keys, uses) == CHOOSE v \in keys : \A w \in keys : uses[v] <= uses[w]

\* C9: a Set of an absent key into a full cache removes exactly one entry, the
\* one whose most recent use (its last Set, or its last Get that found it) is
\* the oldest; every other stored key keeps its entry and is retrievable
\* within its TTL.
C9_EvictsLeastRecentlyUsed ==
    (call.fn = "Set" /\ CreatedEnabled /\ call.key \notin Keys(call.before)
     /\ Len(call.before) = hist.maxEntries) =>
        LET old    == Keys(call.before)
            victim == OldestUse(old, call.usesBefore)
        IN
        /\ Keys(cache.items) = (old \ {victim}) \cup {call.key}
        /\ \A w \in old \ {victim} :
               /\ EntryOf(cache.items, w) = EntryOf(call.before, w)
               /\ call.at <= EntryOf(call.before, w).expiresAt =>
                      LET g == CacheGet(cache, w, call.at) IN
                      g.found /\ g.data = hist.lastSet[w].data

\* a Get hit on the oldest-stored key saved it from the eviction that followed
C9_Witness ==
    /\ call.fn = "Set" /\ CreatedEnabled /\ hist.maxEntries = 2
    /\ call.key \notin Keys(call.before)
    /\ Len(call.before) = 2
    /\ LET old == Keys(call.before) IN
       \E kept \in old :
           /\ kept \in Keys(cache.items)
           /\ \A w \in old \ {kept} :
                  hist.lastSet[kept].at < hist.lastSet[w].at

\* C10: a cache created disabled (flag false, or maxEntries <= 0) never holds
\* an entry: every Get returns not-found, Set changes nothing, IsEnabled is
\* false.
C10_DisabledCacheIsInert ==
    ~CreatedEnabled =>
        /\ cache.items = <<>>
        /\ ~CacheIsEnabled(cache)
        /\ call.fn = "Get" => (~call.found /\ call.data = <<>>)
        /\ call.fn = "Set" => call.before = <<>>

C10_Witness ==
    /\ hist.enabled /\ hist.maxEntries = 0
    /\ call.fn = "Get"
    /\ hist.lastSet[call.key].some
    /\ ~call.found

-----------------------------------------------------------------------------
(* SpecServer: the server answering /play, /seg, /key, /raw and /sign      *)
(* requests, and a player that follows the URLs the server hands out       *)

MaxReqs       == 2                    \* requests in one run
SrvMaxNow     == 2                    \* the server's clock runs over 0..SrvMaxNow
SrvSignTTL    == 1                    \* sign.ttlSeconds of the server's configuration
SrvCacheCap   == 1                    \* maxEntries of each of the three caches
MaxURLLength  == 16                   \* limits.maxURLLength of the configuration
MaxPlaylistKB == 1                    \* limits.maxPlaylistKB of the configuration

PathP   == <<"/", "p", "/">>
URLPlay == HttpPrefix \o HostH \o PathP \o <<"a">>     \* http://h.c/p/a, a playlist
URLSeg  == HttpPrefix \o HostH \o PathP \o <<"s">>     \* http://h.c/p/s, a segment
URLKey  == HttpPrefix \o HostH \o PathP \o <<"k">>     \* http://h.c/p/k, a key
URLEvil == HttpPrefix \o HostO \o PathP \o <<"s">>     \* http://o.c/p/s, host not allowed
URLLong == URLPlay \o <<"?", "z", "z">>                \* longer than maxURLLength
URLBare == HostH \o PathP \o <<"a">>                   \* h.c/p/a, no scheme

\* what the origin serves
PlaylistText ==
    ExtM3U \o <<"\n", "s", "\n">> \o ExtXKey \o <<"M", "=", "A", ",">>
    \o UriEq \o <<"\"", "k", "\"">>

Origin(url) ==
    IF url = URLPlay \/ url = URLLong THEN PlaylistText
    ELSE IF url = URLSeg THEN <<"S", "0", "1", "2">>
    ELSE IF url = URLKey THEN <<"K", "0", "1", "2">>
    ELSE <<"X">>

\* the upstream fetch of url: the origin's bytes, or a 404
UpstreamAnswers(url) ==
    { [err |-> FALSE, status |-> 200, contentLength |-> <<>>, contentType |-> <<>>,
       body |-> Origin(url)],
      [err |-> FALSE, status |-> 404, contentLength |-> <<>>, contentType |-> <<>>,
       body |-> <<>>] }

NoTok  == [sign |-> <<>>, ts |-> <<>>]
BadTok == [sign |-> <<"0", "0">>, ts |-> <<"x">>]

\* the token /sign returns for url at time t
TokenFor(url, t) ==
    [sign |-> HmacHex(signer.secret, url \o <<"|">> \o FormatInt(t)), ts |-> FormatInt(t)]

\* the sign and ts a client may send with a request for url: none, a wrong
\* one, the token of url issued now or at time 0, and the token of another
\* URL issued now
Tokens(url) ==
    IF signer.enabled
    THEN { NoTok, BadTok, TokenFor(url, 0), TokenFor(url, now),
           TokenFor(IF url = URLPlay THEN URLSeg ELSE URLPlay, now) }
    ELSE { NoTok, BadTok }

\* Range: bytes=1-2
RangeHeader == BytesEq \o <<"1", "-", "2">>

Request(url, tok) == [url |-> url, sign |-> tok.sign, ts |-> tok.ts, range |-> <<>>]

\* the requests a client sends on its own
DirectRequests ==
    UNION { { Request(url, tok) : tok \in Tokens(url) } : url \in { URLPlay, URLSeg, URLEvil } }
    \cup { Request(url, NoTok) : url \in { <<>>, URLLong, URLBare } }
    \cup { [Request(URLSeg, tok) EXCEPT !.range = RangeHeader] :
               tok \in { NoTok, TokenFor(URLSeg, now) } }

\* the URI="..." value of an #EXT-X-KEY line, as a player reads it
KeyURIOf(line) ==
    LET open  == UriEq \o <<"\"">>
        isAt(i) == SubSeq(line, i, i + Len(open) - 1) = open
        at    == IF Contains(line, open)
                 THEN CHOOSE i \in 1..Len(line) : isAt(i) /\ \A j \in 1..(i - 1) : ~isAt(j)
                 ELSE 0
    IN IF at = 0 THEN <<>> ELSE CutBefore(From(line, at + Len(open)), "\"")

\* the URLs a player takes from a playlist body
RefsOf(body) ==
    LET lines == Split(body, "\n") IN
    { ref \in { IF HasPrefix(lines[i], ExtXKey) THEN KeyURIOf(lines[i])
                ELSE IF HasPrefix(lines[i], <<"#">>) THEN <<>>
                ELSE lines[i] : i \in 1..Len(lines) } : ref # <<>> }

\* the request the server sees for a URL on itself: the path, and the decoded
\* query parameters urlParam, sign and ts
RequestOf(ref, urlParam) ==
    LET values == ParseQuery(CutAfter(ref, "?")) IN
    [path |-> CutBefore(ref, "?"),
     r    |-> [url |-> QueryGet(values, urlParam),
               sign |-> QueryGet(values, <<"s", "i", "g", "n">>),
               ts |-> QueryGet(values, <<"t", "s">>), range |-> <<>>]]

\* call is the last request: its handler, parameters, time and response, how
\* the client came by it, and for a URL taken from a playlist the /play
\* request that returned the playlist
Record(fn, r, out, via, origin) ==
    /\ hist.ops < MaxReqs
    /\ hist' = [hist EXCEPT !.ops = @ + 1]
    /\ call' = [fn |-> fn, r |-> r, target |-> SanitizeURL(r.url), at |-> now,
                resp |-> out.resp, via |-> via, origin |-> origin]
    /\ srv' = out.srv
    /\ UNCHANGED <<now, signer, issued, cache, config, mu, thr>>

NoOrigin == [sign |-> <<>>, ts |-> <<>>]

ServerTick ==
    /\ now < SrvMaxNow
    /\ now' = now + 1
    /\ UNCHANGED <<call, signer, issued, cache, hist, config, srv, mu, thr>>

Play(r, up) == Record("play", r, handlePlay(r, up), "direct", NoOrigin)

Seg(r, up) == Record("seg", r, handleSegment(r, up), "direct", NoOrigin)

Key(r, up) == Record("key", r, handleKey(r, up), "direct", NoOrigin)

Raw(r, up) == Record("raw", r, handleRaw(r, up), "direct", NoOrigin)

Sign(r) == Record("sign", r, handleSign(r), "direct", NoOrigin)

\* the last call returned a playlist from /play
ReturnedPlaylist ==
    call.fn = "play" /\ call.resp.status = 200 /\ call.resp.ctype = MimeHLS

\* the requests a player makes for the URLs of a playlist body, unchanged
RefRequests(body) == { RequestOf(ref, <<"u">>) : ref \in RefsOf(body) }

\* the player requests a /seg or /key URL of the playlist /play just returned
FollowRef(q, up) ==
    LET origin == [sign |-> call.r.sign, ts |-> call.r.ts] IN
    /\ ReturnedPlaylist
    /\ q.path \in { SegPrefix, KeyPrefix }
    /\ IF q.path = SegPrefix
       THEN Record("seg", q.r, handleSegment(q.r, up), "playlist", origin)
       ELSE Record("key", q.r, handleKey(q.r, up), "playlist", origin)

ServerConfig(enableM3U8) ==
    [AllowHosts |-> <<HostH>>, MaxURLLength |-> MaxURLLength,
     MaxPlaylistKB |-> MaxPlaylistKB, EnableM3U8 |-> enableM3U8]

ServerCaches ==
    [m3u8Cache |-> CacheNew(SrvCacheCap, CacheTTL, TRUE),
     keyCache  |-> CacheNew(SrvCacheCap, CacheTTL, TRUE),
     tsCache   |-> CacheNew(SrvCacheCap, CacheTTL, TRUE)]

InitServer ==
    /\ now = 0
    /\ call = NoCall
    /\ signer \in { SignerNew(SecretA, SrvSignTTL, e) : e \in BOOLEAN }
    /\ issued = NoToken
    /\ cache = NoCache
    /\ hist = NoHist
    /\ config \in { ServerConfig(e) : e \in BOOLEAN }
    /\ srv = ServerCaches
    /\ mu = NoLock
    /\ thr = NoThreads

NextServer ==
    \/ ServerTick
    \/ \E r \in DirectRequests : \E up \in UpstreamAnswers(SanitizeURL(r.url)) : Play(r, up)
    \/ \E r \in DirectRequests : \E up \in UpstreamAnswers(SanitizeURL(r.url)) : Seg(r, up)
    \/ \E r \in DirectRequests : \E up \in UpstreamAnswers(SanitizeURL(r.url)) : Key(r, up)
    \/ \E url \in { URLPlay, URLSeg, URLEvil, <<>> }, tok \in { NoTok, BadTok } :
           \E up \in UpstreamAnswers(url) : Raw(Request(url, tok), up)
    \/ \E url \in { URLPlay, URLEvil, URLBare, <<>> } : Sign(Request(url, NoTok))
    \/ /\ ReturnedPlaylist
       /\ \E q \in RefRequests(call.resp.body) :
              \E up \in UpstreamAnswers(SanitizeURL(q.r.url)) : FollowRef(q, up)

SpecServer == InitServer /\ [][NextServer]_vars

\* the last response of /play, /seg or /key carries resource bytes: the
\* upstream's, or a cache entry's
CarriesBytes ==
    /\ call.fn \in { "play", "seg", "key" }
    /\ \/ call.resp.hit
       \/ call.resp.fetched /\ call.resp.status \in { 200, 206 }

\* what the access controller and the signature service say of the last request
HostAllowed == IsAllowedHost(call.target, config.AllowHosts)

SignatureOK == Verify(signer, call.target, call.r.sign, call.r.ts, call.at) = ErrNil

\* C1: a response of /play, /seg or /key carries resource bytes, fresh or
\* from a cache hit, only if the request's target host is allow-listed and
\* signing is disabled or Verify accepted the request's own sign and ts; a
\* cache filled by an earlier request never serves a request that fails it.
C1_BytesOnlyAfterBothGates ==
    CarriesBytes => (HostAllowed /\ (~signer.enabled \/ SignatureOK))

\* a request with a good signature is served from a cache while signing is on
C1_Witness ==
    /\ signer.enabled /\ CarriesBytes /\ call.resp.hit
    /\ HostAllowed /\ SignatureOK

\* the last request is a /seg or /key URL of a playlist that /play returned
\* for a verified (sign, ts), requested unchanged while now - ts <= ttl
FollowsPlaylistInTime ==
    /\ signer.enabled
    /\ call.fn \in { "seg", "key" } /\ call.via = "playlist"
    /\ ~ParseInt(call.origin.ts).err
    /\ call.at - ParseInt(call.origin.ts).val <= signer.ttlSeconds

\* C2: with signing enabled, every /seg and /key URL of a rewritten playlist
\* that /play returned for a verified (sign, ts), requested unchanged while
\* now - ts <= ttl, passes the signature check: it is not answered 401.
C2_PropagatedTokenAccepted ==
    FollowsPlaylistInTime => call.resp.status # 401

-----------------------------------------------------------------------------
(* SpecSignOff: the server and its Signer with signing disabled            *)

\* the sign and ts presented while signing is off
OffTokens(url) ==
    { NoTok, BadTok, [sign |-> <<"0", "0">>, ts |-> <<>>], [sign |-> <<>>, ts |-> <<"0">>],
      TokenFor(url, now) }

OffRequests ==
    UNION { { Request(url, tok) : tok \in OffTokens(url) } : url \in { URLPlay, URLEvil } }

\* Signer.Verify called on the parameters of r
OffVerify(r) ==
    /\ hist.ops < MaxReqs
    /\ hist' = [hist EXCEPT !.ops = @ + 1]
    /\ call' = [fn |-> "Verify", r |-> r, target |-> r.url, at |-> now,
                ret |-> Verify(signer, r.url, r.sign, r.ts, now)]
    /\ UNCHANGED <<now, signer, issued, cache, config, srv, mu, thr>>

\* Signer.Generate called on the URL of r
OffGenerate(r) ==
    /\ hist.ops < MaxReqs
    /\ hist' = [hist EXCEPT !.ops = @ + 1]
    /\ call' = [fn |-> "Generate", r |-> r, target |-> r.url, at |-> now,
                ret |-> Generate(signer, r.url, now).err]
    /\ UNCHANGED <<now, signer, issued, cache, config, srv, mu, thr>>

InitSignOff ==
    /\ now = 0
    /\ call = NoCall
    /\ signer = SignerNew(SecretA, SrvSignTTL, FALSE)
    /\ issued = NoToken
    /\ cache = NoCache
    /\ hist = NoHist
    /\ config = ServerConfig(TRUE)
    /\ srv = ServerCaches
    /\ mu = NoLock
    /\ thr = NoThreads

NextSignOff ==
    \/ ServerTick
    \/ \E r \in OffRequests : OffVerify(r)
    \/ \E r \in OffRequests : OffGenerate(r)
    \/ \E r \in OffRequests : \E up \in UpstreamAnswers(r.url) : Play(r, up)
    \/ \E r \in OffRequests : \E up \in UpstreamAnswers(r.url) : Seg(r, up)
    \/ \E r \in OffRequests : \E up \in UpstreamAnswers(r.url) : Key(r, up)

SpecSignOff == InitSignOff /\ [][NextSignOff]_vars

\* C6: with signing disabled, Verify returns nil for every (url, sign, ts),
\* empty sign, empty ts and non-numeric ts included, so /play, /seg and /key
\* never answer 401; and Generate fails with the signing-disabled error.
C6_DisabledSignerAcceptsAll ==
    ~signer.enabled =>
        /\ call.fn = "Verify" => call.ret = ErrNil
        /\ call.fn = "Generate" => call.ret = ErrDisabled
        /\ call.fn \in { "play", "seg", "key" } => call.resp.status # 401

\* /play served a request that carries no sign and no ts
C6_Witness ==
    /\ ~signer.enabled
    /\ call.fn = "play" /\ call.r.sign = <<>> /\ call.r.ts = <<>>
    /\ call.resp.status = 200 /\ call.resp.fetched

-----------------------------------------------------------------------------
(* SpecConc: goroutines calling Get and Set of one Cache at the same time. *)
(* Each call of lru.Cache is one step (lru.Cache locks itself); Cache.Get  *)
(* holds mu.RLock from its look-up to its return, Cache.Set holds mu.Lock  *)

ConcProcs  == { 1, 2 }                \* goroutines
ConcOps    == 3                       \* Get and Set calls in one run
ConcMaxNow == 2                       \* the clock runs over 0..ConcMaxNow
ConcSizes  == { 1, 2 }                \* the maxEntries tried

ConcKeys == { <<"k", "1">>, <<"k", "2">> }
ConcData == { <<"d", "1">>, <<"d", "2">> }

\* mu.Lock that does not wait for the readers to leave
CanLock_IgnoresReaders(m) == m.writer = 0

\* sync.RWMutex: Lock is granted when nobody holds the mutex
CanLock(m) == m.writer = 0 /\ m.readers = {}

\* sync.RWMutex: RLock is granted when no writer holds the mutex
CanRLock(m) == m.writer = 0

Idle == [pc |-> "idle"]

AllIdle == \A p \in DOMAIN thr : thr[p].pc = "idle"

\* a call begins: it is counted and stamped with its place in the order of events
Begin(p, fn, key, data) ==
    /\ thr[p].pc = "idle"
    /\ hist.ops < ConcOps
    /\ hist' = [hist EXCEPT !.ops = @ + 1, !.clock = @ + 1]
    /\ thr' = [thr EXCEPT ![p] = [pc |-> IF fn = "Get" THEN "lookup" ELSE "add",
                                  fn |-> fn, key |-> key, data |-> data,
                                  inv |-> hist.clock, t0 |-> now,
                                  exists |-> FALSE, expiresAt |-> 0,
                                  found |-> FALSE, out |-> <<>>]]

\* a call returns: what it did goes into the history
End(p, found, out) ==
    /\ hist' = [hist EXCEPT !.clock = @ + 1,
                            !.done = Append(@, [fn |-> thr[p].fn, key |-> thr[p].key,
                                                data |-> thr[p].data, found |-> found,
                                                out |-> out, inv |-> thr[p].inv,
                                                ret |-> hist.clock, t0 |-> thr[p].t0,
                                                t1 |-> now])]
    /\ thr' = [thr EXCEPT ![p] = Idle]

\* Cache.Get, c.mu.RLock()
GetRLock(p, key) ==
    /\ cache.enabled
    /\ CanRLock(mu)
    /\ mu' = [mu EXCEPT !.readers = @ \cup {p}]
    /\ Begin(p, "Get", key, <<>>)
    /\ UNCHANGED <<now, call, signer, issued, cache, config, srv>>

\* Cache.Get, entry, exists := c.lru.Get(key)
GetLookup(p) ==
    LET g == lruGet(cache.items, thr[p].key) IN
    /\ thr[p].pc = "lookup"
    /\ cache' = [cache EXCEPT !.items = g.items]
    /\ thr' = [thr EXCEPT ![p].pc = "check", ![p].exists = g.found,
                          ![p].expiresAt = g.value.expiresAt, ![p].out = g.value.data]
    /\ UNCHANGED <<now, call, signer, issued, hist, config, srv, mu>>

\* Cache.Get, !exists || time.Now().After(entry.ExpiresAt)
GetCheck(p) ==
    /\ thr[p].pc = "check"
    /\ thr' = [thr EXCEPT ![p].pc = IF ~thr[p].exists THEN "return"
                                    ELSE IF now > thr[p].expiresAt THEN "remove"
                                    ELSE "return",
                          ![p].found = thr[p].exists /\ ~(now > thr[p].expiresAt)]
    /\ UNCHANGED <<now, call, signer, issued, cache, hist, config, srv, mu>>

\* Cache.Get, c.lru.Remove(key)
GetRemove(p) ==
    /\ thr[p].pc = "remove"
    /\ cache' = [cache EXCEPT !.items = lruRemove(@, thr[p].key)]
    /\ thr' = [thr EXCEPT ![p].pc = "return"]
    /\ UNCHANGED <<now, call, signer, issued, hist, config, srv, mu>>

\* Cache.Get returns, and the deferred c.mu.RUnlock() runs
GetReturn(p) ==
    /\ thr[p].pc = "return"
    /\ mu' = [mu EXCEPT !.readers = @ \ {p}]
    /\ End(p, thr[p].found, IF thr[p].found THEN thr[p].out ELSE <<>>)
    /\ UNCHANGED <<now, call, signer, issued, cache, config, srv>>

\* Cache.Set, c.mu.Lock()
SetLock(p, key, data) ==
    /\ cache.enabled
    /\ CanLock(mu)
    /\ mu' = [mu EXCEPT !.writer = p]
    /\ Begin(p, "Set", key, data)
    /\ UNCHANGED <<now, call, signer, issued, cache, config, srv>>

\* Cache.Set, c.lru.Add(key, entry) with ExpiresAt from time.Now(), then the
\* deferred c.mu.Unlock()
SetAdd(p) ==
    /\ thr[p].pc = "add"
    /\ cache' = CacheSet(cache, thr[p].key, thr[p].data, now)
    /\ mu' = [mu EXCEPT !.writer = 0]
    /\ End(p, FALSE, <<>>)
    /\ UNCHANGED <<now, call, signer, issued, config, srv>>

ConcTick ==
    /\ now < ConcMaxNow
    /\ now' = now + 1
    /\ UNCHANGED <<call, signer, issued, cache, hist, config, srv, mu, thr>>

InitConc ==
    /\ now = 0
    /\ call = NoCall
    /\ signer = NoSigner
    /\ issued = NoToken
    /\ \E maxEntries \in ConcSizes :
           /\ cache = CacheNew(maxEntries, CacheTTL, TRUE)
           /\ hist = [ops |-> 0, clock |-> 0, done |-> <<>>,
                      init |-> CacheNew(maxEntries, CacheTTL, TRUE)]
    /\ config = NoConfig
    /\ srv = NoServer
    /\ mu = NoLock
    /\ thr = [p \in ConcProcs |-> Idle]

NextConc ==
    \/ ConcTick
    \/ \E p \in ConcProcs, key \in ConcKeys : GetRLock(p, key)
    \/ \E p \in ConcProcs : GetLookup(p)
    \/ \E p \in ConcProcs : GetCheck(p)
    \/ \E p \in ConcProcs : GetRemove(p)
    \/ \E p \in ConcProcs : GetReturn(p)
    \/ \E p \in ConcProcs, key \in ConcKeys, data \in ConcData : SetLock(p, key, data)
    \/ \E p \in ConcProcs : SetAdd(p)

SpecConc == InitConc /\ [][NextConc]_vars

\* the calls of the history that are left, applied one at a time from the
\* cache c: the next one is a call that none of the others left returned
\* before, it sees an instant of its own not earlier than tmin, the instant of
\* the call before it, and its result is the one the history recorded; at the
\* end the cache is the one the calls left behind
RECURSIVE LinSearch(_, _, _)
LinSearch(c, left, tmin) ==
    IF left = {} THEN c.items = cache.items
    ELSE \E i \in left :
             LET op == hist.done[i] IN
             /\ \A j \in left \ {i} : ~(hist.done[j].ret < op.inv)
             /\ \E t \in (IF tmin > op.t0 THEN tmin ELSE op.t0)..op.t1 :
                    IF op.fn = "Set"
                    THEN \E c2 \in { CacheSet(c, op.key, op.data, t) } :
                             LinSearch(c2, left \ {i}, t)
                    ELSE \E g \in { CacheGet(c, op.key, t) } :
                             /\ g.found = op.found
                             /\ op.found => g.data = op.out
                             /\ LinSearch(g.cache, left \ {i}, t)

Linearizable == LinSearch(hist.init, DOMAIN hist.done, 0)

\* the entry a Get is about to remove is the expired one it looked up
RemovesOnlyExpired ==
    \A p \in DOMAIN thr :
        thr[p].pc = "remove" =>
            \A i \in 1..Len(cache.items) :
                cache.items[i].key = thr[p].key => now > cache.items[i].expiresAt

\* keys are held once and never more than maxEntries of them
ItemsWellFormed ==
    /\ Len(cache.items) <= cache.size
    /\ \A i, j \in 1..Len(cache.items) :
           i # j => cache.items[i].key # cache.items[j].key

\* C11: concurrent Get and Set calls on one cache behave as if each ran
\* atomically at one instant between its call and its return: when all calls
\* have returned, some such order gives every recorded result and the items
\* the cache holds; the items stay well formed at every step, and the remove
\* a Get does for an expired entry never removes an entry that is still valid
C11_ConcurrentCallsLinearizable ==
    /\ ItemsWellFormed
    /\ RemovesOnlyExpired
    /\ AllIdle => Linearizable

Overlap(a, b) == ~(a.ret < b.inv) /\ ~(b.ret < a.inv)

\* two Gets that overlapped both found the same entry expired
C11_Witness ==
    /\ AllIdle
    /\ \E i, j, k \in 1..Len(hist.done) :
           /\ i # j
           /\ hist.done[k].fn = "Set"
           /\ hist.done[i].fn = "Get" /\ hist.done[j].fn = "Get"
           /\ hist.done[i].key = hist.done[k].key
           /\ hist.done[j].key = hist.done[k].key
           /\ hist.done[k].ret < hist.done[i].inv
           /\ hist.done[k].ret < hist.done[j].inv
           /\ ~hist.done[i].found /\ ~hist.done[j].found
           /\ Overlap(hist.done[i], hist.done[j])

-----------------------------------------------------------------------------
(* SpecRange: streamContent and handleRangeRequest on payloads and Range    *)
(* headers drawn from small sets                                            *)

Payload10 == <<"0", "1", "2", "3", "4", "5", "6", "7", "8", "9">>

RangePayloads == { <<>>, <<"a", "b", "c">>, Payload10 }

RangeStarts == { <<>>, <<"0">>, <<"1">>, <<"5">>, <<"8">>, <<"0", "2">>, <<"+", "1">>, <<"x">> }

RangeEnds == { <<>>, <<"0">>, <<"2">>, <<"4">>, <<"9">>, <<"2", "0">>, <<"x">> }

RangeHeaders ==
    { BytesEq \o s \o <<"-">> \o e : s \in RangeStarts, e \in RangeEnds }
    \cup { BytesEq \o <<"0", "-", "1", ",", "3", "-", "4">>,      \* bytes=0-1,3-4
           BytesEq \o <<"0", "-", "1", ",", "2">>,                \* bytes=0-1,2
           BytesEq \o <<"3">>,                                    \* bytes=3
           <<"b", "i", "t", "s", "=", "0", "-", "4">>,            \* bits=0-4
           <<"0", "-", "4">>,                                     \* 0-4
           <<>> }                                                 \* no Range header

RangeCall(content, rangeHeader) ==
    /\ call' = [fn |-> "streamContent", content |-> content, range |-> rangeHeader,
                resp |-> streamContent([range |-> rangeHeader], content, MimeOctet)]
    /\ UNCHANGED <<now, signer, issued, cache, hist, config, srv, mu, thr>>

InitRange ==
    /\ now = 0
    /\ call = NoCall
    /\ signer = NoSigner
    /\ issued = NoToken
    /\ cache = NoCache
    /\ hist = NoHist
    /\ config = NoConfig
    /\ srv = NoServer
    /\ mu = NoLock
    /\ thr = NoThreads

NextRange == \E content \in RangePayloads, h \in RangeHeaders : RangeCall(content, h)

SpecRange == InitRange /\ [][NextRange]_vars

\* a bound written in decimal digits, and the number it writes
IsDecimal(x) == x # <<>> /\ \A i \in 1..Len(x) : x[i] \in Digits

RECURSIVE DecimalValue(_)
DecimalValue(x) ==
    IF x = <<>> THEN 0
    ELSE 10 * DecimalValue(UpTo(x, Len(x) - 1))
         + (CHOOSE d \in 0..9 : ToString(d) = x[Len(x)])

RECURSIVE DecimalOf(_)
DecimalOf(n) ==
    IF n < 10 THEN <<ToString(n)>> ELSE DecimalOf(n \div 10) \o <<ToString(n % 10)>>

\* the ranges bytes=S-E and bytes=S- with both bounds given in digits
SingleRanges ==
    { <<S, E>> \in RangeStarts \X RangeEnds : IsDecimal(S) /\ (E = <<>> \/ IsDecimal(E)) }

\* C12: the answer to Range: bytes=S-E over a payload of length L is 206 with
\* Content-Range "bytes s-e/L" and the body payload[s..e] iff the header is
\* one range with numeric bounds, 0 <= s, e < L (e = L - 1 when E is left
\* out) and s <= e; every other header is answered 416 with an empty body
C12_RangeServedIffWellFormed ==
    (call.fn = "streamContent" /\ call.range # <<>>) =>
        LET L == Len(call.content)
            ok(SE) == /\ call.range = BytesEq \o SE[1] \o <<"-">> \o SE[2]
                      /\ LET s == DecimalValue(SE[1])
                             e == IF SE[2] = <<>> THEN L - 1 ELSE DecimalValue(SE[2])
                         IN 0 <= s /\ e < L /\ s <= e
        IN
        IF \E SE \in SingleRanges : ok(SE)
        THEN LET SE == CHOOSE SE \in SingleRanges : ok(SE)
                 s == DecimalValue(SE[1])
                 e == IF SE[2] = <<>> THEN L - 1 ELSE DecimalValue(SE[2])
             IN
             /\ call.resp.status = 206
             /\ call.resp.crange = <<"b", "y", "t", "e", "s", " ">> \o DecimalOf(s)
                                   \o <<"-">> \o DecimalOf(e) \o <<"/">> \o DecimalOf(L)
             /\ call.resp.body = SubSeq(call.content, s + 1, e + 1)
             /\ Len(call.resp.body) = e - s + 1
        ELSE /\ call.resp.status = 416
             /\ call.resp.body = <<>>

-----------------------------------------------------------------------------
(* SpecRewrite: M3U8Rewriter.Rewrite on playlists put together from a pool  *)
(* of lines, against the playlist URLs handlePlay hands over                *)

MaxLines == 2                         \* lines of a playlist

\* reference lines
RefLines ==
    { <<"s">>, <<" ", "s", "\r">>, <<"/", "r", "/", "s">>, <<".", ".", "/", "s">>, <<".", ".", "/", ".", ".", "/", ".", ".", "/", "s">>, <<".", "/", "s">>, <<"d", "/", ".", ".", "/", "e", "?", "q", "=", "1">>, <<"a", "/", ".", "/", "b", "/", ".", ".">>,
      <<"?", "q", "=", "1">>, <<"/", "/", "o", ".", "c", "/", "x">>, <<"h", "t", "t", "p", ":", "/", "/", "o", ".", "c", "/", "x">>, <<"h", "t", "t", "p", "s", ":", "/", "/", "o", ".", "c", "/", ".", ".", "/", "x">> }

\* #EXT-X-KEY lines: their attribute lists, what the lists are made of
KeyAttrLists ==
    { << <<"M", "=", "A">>, <<"U", "R", "I", "=", "\"", "k", "\"">> >>,
      << <<"U", "R", "I", "=", "\"", "k", "\"">>, <<"M", "=", "A">> >>,
      << <<"M", "=", "A">>, <<"U", "R", "I", "=", "\"", ".", ".", "/", "k", "\"">>, <<"I", "=", "0">> >>,
      << <<"M", "=", "A">>, <<" ", "U", "R", "I", "=", "\"", "h", "t", "t", "p", ":", "/", "/", "o", ".", "c", "/", "k", "\"">> >>,
      << <<"M", "=", "A">>, <<"U", "R", "I", "=", "\"", "k", "?", "a", ",", "b", "\"">> >>,
      << <<"M", "=", "N">> >> }

KeyLineOf(attrs) == ExtXKey \o Join(attrs, <<",">>)

KeyLines == { KeyLineOf(attrs) : attrs \in KeyAttrLists }

\* blank lines and the other directives
PlainLines ==
    { <<>>, <<" ", "\r">>, <<"#", "E", "X", "T", "M", "3", "U">>, <<"#", "E", "X", "T", "I", "N", "F", ":", "4", ",">>, <<" ", "#", "E", "X", "T", "-", "X", "-", "M", "A", "P", ":", "U", "R", "I", "=", "\"", "i", "\"">>,
      <<"#", "E", "X", "T", "-", "X", "-", "M", "E", "D", "I", "A", ":", "T", "=", "A", ",", "U", "R", "I", "=", "\"", "a", "\"">> }

LinePool == RefLines \cup KeyLines \cup PlainLines

Playlists == UNION { [1..n -> LinePool] : n \in 1..MaxLines }

\* playlist URLs as handlePlay passes them on: sanitized, absolute
PlaylistURLs == { <<"h", "t", "t", "p", ":", "/", "/", "h", ".", "c", "/", "p", "/", "a">>, <<"h", "t", "t", "p", "s", ":", "/", "/", "h", ".", "c", "/", "p", "/", "q", "/", "a", "?", "t", "=", "1">> }

\* the rewriters main builds, and one with a base address
Rewriters ==
    { NewM3U8Rewriter(<<>>, SegPrefix, KeyPrefix, <<>>),
      NewM3U8Rewriter(<<>>, SegPrefix, KeyPrefix, BuildSignParams(<<"a", "b">>, <<"1">>)),
      NewM3U8Rewriter(<<"/", "v">>, SegPrefix, KeyPrefix, BuildSignParams(<<"a", "+">>, <<"1">>)) }

\* Rewrite is applied to the playlist the run began with
RewriteCall ==
    /\ call.fn = "input"
    /\ call' = [call EXCEPT !.fn = "Rewrite",
                            !.out = Rewrite(call.rewriter, call.content, call.originalURL)]
    /\ UNCHANGED <<now, signer, issued, cache, hist, config, srv, mu, thr>>

InitRewrite ==
    /\ now = 0
    /\ \E r \in Rewriters, lines \in Playlists, u \in PlaylistURLs :
           call = [fn |-> "input", rewriter |-> r, lines |-> lines,
                   content |-> Join(lines, <<"\n">>), originalURL |-> u, out |-> <<>>]
    /\ signer = NoSigner
    /\ issued = NoToken
    /\ cache = NoCache
    /\ hist = NoHist
    /\ config = NoConfig
    /\ srv = NoServer
    /\ mu = NoLock
    /\ thr = NoThreads

NextRewrite == RewriteCall

SpecRewrite == InitRewrite /\ [][NextRewrite]_vars

\* the lines of the answer
OutLines == Split(call.out, "\n")

\* RFC 3986, 5.2.4: remove_dot_segments, input buffer in, output buffer out
RECURSIVE RemoveDotSegments(_, _)
RemoveDotSegments(in, out) ==
    LET dropLast == IF LastIndex(out, "/") = 0 THEN <<>>
                    ELSE UpTo(out, LastIndex(out, "/") - 1)
    IN
    IF in = <<>> THEN out
    ELSE IF HasPrefix(in, <<".", ".", "/">>) THEN RemoveDotSegments(From(in, 4), out)
    ELSE IF HasPrefix(in, <<".", "/">>) THEN RemoveDotSegments(From(in, 3), out)
    ELSE IF HasPrefix(in, <<"/", ".", "/">>) THEN RemoveDotSegments(From(in, 3), out)
    ELSE IF in = <<"/", ".">> THEN RemoveDotSegments(<<"/">>, out)
    ELSE IF HasPrefix(in, <<"/", ".", ".", "/">>) THEN RemoveDotSegments(From(in, 4), dropLast)
    ELSE IF in = <<"/", ".", ".">> THEN RemoveDotSegments(<<"/">>, dropLast)
    ELSE IF in = <<".">> \/ in = <<".", ".">> THEN out
    ELSE LET next == Index(Tail(in), "/")
             seg  == IF next = 0 THEN in ELSE UpTo(in, next)
         IN RemoveDotSegments(From(in, Len(seg) + 1), out \o seg)

\* RFC 3986, 3: the parts of scheme://authority/path?query
AbsoluteParts(u) ==
    LET colon == Index(u, ":")
        rest  == From(u, colon + 3)
        hier  == CutBefore(rest, "?")
        slash == Index(hier, "/")
    IN [scheme |-> UpTo(u, colon - 1),
        auth   |-> IF slash = 0 THEN hier ELSE UpTo(hier, slash - 1),
        path   |-> IF slash = 0 THEN <<>> ELSE From(hier, slash),
        query  |-> CutAfter(rest, "?")]

\* RFC 3986, 4.2: the parts of a relative reference [//authority]path[?query]
RelativeParts(ref) ==
    LET hier  == CutBefore(ref, "?")
        net   == HasPrefix(hier, <<"/", "/">>)
        after == IF net THEN From(hier, 3) ELSE hier
        slash == Index(after, "/")
    IN [net   |-> net,
        auth  |-> IF ~net THEN <<>> ELSE IF slash = 0 THEN after ELSE UpTo(after, slash - 1),
        path  |-> IF ~net THEN hier ELSE IF slash = 0 THEN <<>> ELSE From(after, slash),
        query |-> CutAfter(ref, "?")]

\* RFC 3986, 5.2.2 and 5.3: the reference ref resolved against the absolute
\* base, put together again
Rfc3986Resolve(base, ref) ==
    LET b == AbsoluteParts(base)
        r == RelativeParts(ref)
        merged == IF b.path = <<>> THEN <<"/">> \o r.path
                  ELSE UpTo(b.path, LastIndex(b.path, "/")) \o r.path
        auth  == IF r.net THEN r.auth ELSE b.auth
        path  == IF r.net THEN RemoveDotSegments(r.path, <<>>)
                 ELSE IF r.path = <<>> THEN b.path
                 ELSE IF r.path[1] = "/" THEN RemoveDotSegments(r.path, <<>>)
                 ELSE RemoveDotSegments(merged, <<>>)
        query == IF r.net \/ r.path # <<>> \/ r.query # <<>> THEN r.query ELSE b.query
    IN b.scheme \o <<":", "/", "/">> \o auth \o path
       \o (IF query # <<>> THEN <<"?">> \o query ELSE <<>>)

\* the reference a line stands for: R of the claim
ReferenceOf(line, originalURL) ==
    IF HasPrefix(line, <<"h", "t", "t", "p", ":", "/", "/">>) \/ HasPrefix(line, <<"h", "t", "t", "p", "s", ":", "/", "/">>) THEN line
    ELSE Rfc3986Resolve(originalURL, line)

\* percent-encoding of a query value, stated as a property of the result: it
\* reads back to v and holds none of the characters a query string sets apart
PercentEncodes(enc, v) ==
    /\ ~QueryUnescape(enc).err
    /\ QueryUnescape(enc).s = v
    /\ \A i \in 1..Len(enc) : enc[i] \notin { "&", "=", "?", "#", "/", ":", " ", "\"", "," }

IsReferenceLine(l) == TrimSpace(l) # <<>> /\ ~HasPrefix(TrimSpace(l), <<"#">>)

IsQuotedURI(attr) ==
    LET a == TrimSpace(attr) IN
    HasPrefix(a, <<"U", "R", "I", "=", "\"">>) /\ Len(a) >= 6 /\ a[Len(a)] = "\""

QuotedURIValue(attr) == LET a == TrimSpace(attr) IN SubSeq(a, 6, Len(a) - 1)

\* the key-endpoint URL of v, resolved against the playlist URL
KeyEndpointURL(r, v, originalURL) ==
    r.baseURL \o r.keyPrefix \o <<"?", "u", "=">> \o QueryEscape(ReferenceOf(v, originalURL))
    \o (IF r.signParams = <<>> THEN <<>> ELSE <<"&">> \o r.signParams)

\* a string without its white space
Squeeze(s) == SelectSeq(s, LAMBDA c : c \notin Space)

\* the key line the claim describes for the attribute list attrs
ExpectedKeyLine(r, attrs, originalURL) ==
    ExtXKey \o Join([j \in 1..Len(attrs) |->
                        IF IsQuotedURI(attrs[j])
                        THEN <<"U", "R", "I", "=", "\"">> \o KeyEndpointURL(r, QuotedURIValue(attrs[j]),
                                                       originalURL) \o <<"\"">>
                        ELSE attrs[j]], <<",">>)

\* C14: a line #EXT-X-KEY: whose attribute list holds URI="v", first, in the
\* middle or last, is answered by the same list with that attribute replaced by
\* URI="<key-endpoint URL of v resolved against the playlist URL>" and every
\* other attribute unchanged, in the same order
C14_KeyURIRewrittenAtAnyPosition ==
    call.fn = "Rewrite" =>
        \A i \in 1..Len(call.lines) :
            \A attrs \in KeyAttrLists :
                call.lines[i] = KeyLineOf(attrs) =>
                    /\ Len(OutLines) = Len(call.lines)
                    /\ Squeeze(OutLines[i])
                           = Squeeze(ExpectedKeyLine(call.rewriter, attrs, call.originalURL))

IsPassedThrough(l) ==
    LET line == TrimSpace(l) IN
    line = <<>> \/ (HasPrefix(line, <<"#">>) /\ ~HasPrefix(line, ExtXKey))

\* C15: the answer of Rewrite has as many lines as the playlist, in the same
\* order: a blank line and a directive other than #EXT-X-KEY: come out equal to
\* the trimmed line, directives with a URI attribute of their own included, a
\* key line comes out as a key line and a reference as a segment-endpoint URL
C15_LinesKeptInPlace ==
    call.fn = "Rewrite" =>
        /\ Len(OutLines) = Len(call.lines)
        /\ \A i \in 1..Len(call.lines) :
               LET line == TrimSpace(call.lines[i]) IN
               /\ IsPassedThrough(call.lines[i]) => OutLines[i] = line
               /\ HasPrefix(line, ExtXKey) => HasPrefix(OutLines[i], ExtXKey)
               /\ IsReferenceLine(call.lines[i]) =>
                      HasPrefix(OutLines[i],
                                call.rewriter.baseURL \o call.rewriter.segPrefix)

\* a directive carrying a URI attribute and a blank line, next to each other
C15_Witness ==
    /\ call.fn = "Rewrite"
    /\ Len(call.lines) = 2
    /\ call.lines[1] = <<"#", "E", "X", "T", "-", "X", "-", "M", "E", "D", "I", "A", ":", "T", "=", "A", ",", "U", "R", "I", "=", "\"", "a", "\"">>
    /\ call.lines[2] = <<" ", "\r">>
    /\ OutLines = << <<"#", "E", "X", "T", "-", "X", "-", "M", "E", "D", "I", "A", ":", "T", "=", "A", ",", "U", "R", "I", "=", "\"", "a", "\"">>, <<>> >>

-----------------------------------------------------------------------------
(* the playlist /play returns, in SpecServer                               *)

\* the last request was a /play that fetched a playlist and rewrote it
PlayRewrote ==
    /\ call.fn = "play"
    /\ call.resp.status = 200
    /\ call.resp.fetched
    /\ ~call.resp.hit
    /\ config.EnableM3U8
    /\ IsM3U8Content(Origin(call.target))

IsSegEndpoint(ref) == HasPrefix(ref, SegPrefix \o <<"?", "u", "=">>)
IsKeyEndpoint(ref) == HasPrefix(ref, KeyPrefix \o <<"?", "u", "=">>)

\* C16: when signing is enabled and /play rewrites a playlist for a request
\* verified with (sign, ts), every segment-endpoint and key-endpoint URL of
\* the body ends with &sign=<sign>&ts=<ts> of that request; when the request
\* carried no sign and no ts, no URL of the body has a sign or ts parameter
C16_RewrittenURLsCarryToken ==
    PlayRewrote =>
        \A ref \in RefsOf(call.resp.body) :
            (IsSegEndpoint(ref) \/ IsKeyEndpoint(ref)) =>
                /\ signer.enabled =>
                       /\ Verify(signer, call.target, call.r.sign, call.r.ts, call.at) = ErrNil
                       /\ HasSuffix(ref, <<"&", "s", "i", "g", "n", "=">> \o call.r.sign \o <<"&", "t", "s", "=">> \o call.r.ts)
                /\ (call.r.sign = <<>> /\ call.r.ts = <<>>) =>
                       /\ ~Contains(ref, <<"s", "i", "g", "n", "=">>)
                       /\ ~Contains(ref, <<"t", "s", "=">>)

\* a verified /play answered with a rewritten playlist that holds a segment
\* URL and a key URL
C16_Witness ==
    /\ PlayRewrote
    /\ signer.enabled
    /\ call.r.sign # <<>>
    /\ \E ref \in RefsOf(call.resp.body) : IsSegEndpoint(ref)
    /\ \E ref \in RefsOf(call.resp.body) : IsKeyEndpoint(ref)

\* the status of the first check of /play, /seg and /key that the request c
\* fails, in the order of the handlers; 0 when it passes them all
FirstFailure(c) ==
    IF c.r.url = <<>> THEN 400
    ELSE IF c.target = <<>> THEN 400
    ELSE IF c.fn = "play" /\ Len(c.target) > config.MaxURLLength THEN 400
    ELSE IF ~IsAllowedHost(c.target, config.AllowHosts) THEN 403
    ELSE IF Verify(signer, c.target, c.r.sign, c.r.ts, c.at) # ErrNil THEN 401
    ELSE 0

\* a request to /play, /seg or /key is answered in this step
Answered == hist'.ops = hist.ops + 1 /\ call'.fn \in { "play", "seg", "key" }

\* what the last answer of /play, /seg or /key shows of the checks
PipelineAnswer ==
    call.fn \in { "play", "seg", "key" } =>
        \E failed \in { FirstFailure(call) } :
            IF failed # 0
            THEN /\ call.resp.status = failed
                 /\ call.resp.body = <<>>
                 /\ ~call.resp.hit
                 /\ ~call.resp.fetched
            ELSE /\ call.resp.status \notin { 400, 401, 403 }
                 /\ call.resp.hit # call.resp.fetched
                 /\ call.resp.status = 502 => call.resp.fetched

\* a request that is answered 400, 403 or 401 leaves the caches as they were
PipelineStep ==
    (Answered /\ call'.resp.status \in { 400, 401, 403 }) => srv' = srv

\* C17: on /play, /seg and /key the checks run in the order parameter
\* present, URL sanitation, (play only) URL length, allow-list, signature,
\* cache look-up, upstream fetch, and the first one that fails alone sets the
\* status: 400, else 403, else 401, else 502 for an upstream failure; a request
\* answered 400, 403 or 401 reads no cache, writes no cache and fetches nothing
C17_FirstFailingCheckDecides == []PipelineAnswer /\ [][PipelineStep]_vars

\* a segment that the cache holds is refused to a request with a bad
\* signature, and a request that fails two checks gets the status of the first
C17_Witness ==
    /\ call.fn = "seg"
    /\ call.resp.status = 401
    /\ \E i \in 1..Len(srv.tsCache.items) :
           /\ srv.tsCache.items[i].key = call.target
           /\ call.at <= srv.tsCache.items[i].expiresAt

-----------------------------------------------------------------------------
(* SpecRoundTrip: /sign hands out a proxy URL, the client requests it      *)

RtMaxOps == 4                         \* requests in one run

\* the raw parameters sent to /sign
RawInputs ==
    { URLPlay, <<" ">> \o URLPlay \o <<" ">>, URLSeg, URLLong, URLEvil, URLBare, <<>> }

\* GET /sign?raw=...: the proxy URL of a 200 answer is what the client holds
RtSign(raw) ==
    LET r   == Request(raw, NoTok)
        out == handleSign(r)
    IN
    /\ hist.ops < RtMaxOps
    /\ hist' = [hist EXCEPT !.ops = @ + 1]
    /\ call' = [fn |-> "sign", r |-> r, target |-> SanitizeURL(raw), at |-> now,
                resp |-> out.resp, via |-> "direct", origin |-> NoOrigin]
    /\ issued' = IF out.resp.status = 200
                 THEN [some |-> TRUE, proxy |-> out.resp.body, url |-> SanitizeURL(raw),
                       at |-> now]
                 ELSE issued
    /\ srv' = out.srv
    /\ UNCHANGED <<now, signer, cache, config, mu, thr>>

\* the request the router and r.URL.Query() make of the proxy URL the client holds
ProxyRequests == { RequestOf(issued.proxy, <<"u", "r", "l">>) }

\* GET of the proxy URL the client holds
RtPlay(q, up) ==
    /\ q.path = <<"/", "p", "l", "a", "y">>
    /\ hist.ops < RtMaxOps
    /\ hist' = [hist EXCEPT !.ops = @ + 1]
    /\ \E out \in { handlePlay(q.r, up) } :
           /\ call' = [fn |-> "play", r |-> q.r, target |-> SanitizeURL(q.r.url),
                       at |-> now, resp |-> out.resp, via |-> "proxy",
                       origin |-> [sign |-> q.r.sign, ts |-> q.r.ts]]
           /\ srv' = out.srv
    /\ UNCHANGED <<now, signer, issued, cache, config, mu, thr>>

InitRoundTrip ==
    /\ now = 0
    /\ call = NoCall
    /\ signer = SignerNew(SecretA, SrvSignTTL, TRUE)
    /\ issued = NoToken
    /\ cache = NoCache
    /\ hist = NoHist
    /\ config \in { ServerConfig(e) : e \in BOOLEAN }
    /\ srv \in { ServerCaches, NoServer }
    /\ mu = NoLock
    /\ thr = NoThreads

NextRoundTrip ==
    \/ ServerTick
    \/ \E raw \in RawInputs : RtSign(raw)
    \/ /\ issued.some
       /\ \E q \in ProxyRequests : \E up \in UpstreamAnswers(issued.url) : RtPlay(q, up)

SpecRoundTrip == InitRoundTrip /\ [][NextRoundTrip]_vars

\* the client requested the proxy URL it holds while its token was in time
PlayedProxyInTime ==
    /\ call.fn = "play" /\ call.via = "proxy"
    /\ call.at - issued.at <= signer.ttlSeconds

\* the proxy URL is accepted: /play verifies the string /sign signed, and the
\* signature check does not refuse it
ProxyAccepted ==
    PlayedProxyInTime =>
        /\ call.target = issued.url
        /\ call.r.ts = FormatInt(issued.at)
        /\ Verify(signer, call.target, call.r.sign, call.r.ts, call.at) = ErrNil
        /\ call.resp.status # 401
        /\ Len(call.target) <= config.MaxURLLength => call.resp.status \in { 200, 502 }

\* the playlist that comes back is rewritten with the token of the proxy URL
ProxyPlaylistCarriesToken ==
    (/\ PlayedProxyInTime
     /\ call.resp.status = 200
     /\ config.EnableM3U8
     /\ IsM3U8Content(Origin(call.target))) =>
        LET lines == Split(call.resp.body, "\n") IN
        \A i \in 1..Len(lines) :
            IsReferenceLine(lines[i]) =>
                /\ IsSegEndpoint(lines[i])
                /\ HasSuffix(lines[i], <<"&", "s", "i", "g", "n", "=">> \o call.origin.sign
                                       \o <<"&", "t", "s", "=">> \o call.origin.ts)

\* C18: with signing enabled and the host allow-listed, the proxy URL that
\* /sign?raw=U returns is accepted by the signature check of /play at every
\* instant with now - T <= ttl, /play verifying the very string /sign signed;
\* a playlist fetched through it comes back rewritten, its reference lines
\* /seg?u=...&sign=S&ts=T with the S and T of the proxy URL
C18_SignedProxyRoundTrip == ProxyAccepted /\ ProxyPlaylistCarriesToken

\* the status /sign owes the request c, gate by gate
SignGate(c) ==
    IF ~signer.enabled THEN 403
    ELSE IF c.r.url = <<>> \/ SanitizeURL(c.r.url) = <<>> THEN 400
    ELSE IF ~IsAllowedHost(SanitizeURL(c.r.url), config.AllowHosts) THEN 403
    ELSE 200

\* C19: /sign answers 403 whenever signing is disabled, whatever the raw
\* parameter, 400 when raw is missing or fails sanitation, 403 when the host
\* is not allow-listed, and 200 with the proxy URL, sign and ts otherwise; the
\* token of a 200 answer verifies for the sanitised raw URL, and no other
\* answer holds a token
C19_SignIssuesOnlyPastAllGates ==
    call.fn = "sign" =>
        /\ call.resp.status = SignGate(call)
        /\ call.resp.status # 200 => call.resp.body = <<>>
        /\ call.resp.status = 200 =>
               LET q == RequestOf(call.resp.body, <<"u", "r", "l">>) IN
               /\ q.path = <<"/", "p", "l", "a", "y">>
               /\ q.r.url = SanitizeURL(call.r.url)
               /\ q.r.ts = FormatInt(call.at)
               /\ Verify(signer, q.r.url, q.r.sign, q.r.ts, call.at) = ErrNil
               /\ IsAllowedHost(q.r.url, config.AllowHosts)

\* /sign refused a URL of a host that is not allow-listed while signing is on
C19_Witness ==
    /\ call.fn = "sign"
    /\ signer.enabled
    /\ call.r.url = URLEvil
    /\ call.resp.status = 403
    /\ call.resp.body = <<>>

\* a request to /raw is answered in this step: the allow-list decides alone,
\* the caches stay as they are, and what is served was fetched for this
\* request and is the origin's payload as it came
RawStep ==
    (hist'.ops = hist.ops + 1 /\ call'.fn = "raw") =>
        /\ srv' = srv
        /\ ~call'.resp.hit
        /\ call'.resp.status =
               (IF call'.r.url = <<>> \/ call'.target = <<>> THEN 400
                ELSE IF ~IsAllowedHost(call'.target, config.AllowHosts) THEN 403
                ELSE IF call'.resp.status = 502 THEN 502
                ELSE 200)
        /\ call'.resp.status \in { 200, 502 } => call'.resp.fetched
        /\ call'.resp.status = 200 => call'.resp.body = Origin(call'.target)

\* C20: /raw checks the allow-list only: it never verifies a signature (a
\* request with no or a wrong sign and ts is served while signing is
\* enabled), never reads or writes one of the three caches (every accepted
\* request fetches upstream itself), and never rewrites the payload, a
\* playlist with rewriting enabled included
C20_RawChecksAllowListOnly == [][RawStep]_vars

\* while signing and rewriting are on and the playlist cache holds the
\* rewritten playlist, /raw with a wrong token serves the playlist as fetched
C20_Witness ==
    /\ call.fn = "raw"
    /\ signer.enabled
    /\ config.EnableM3U8
    /\ call.r.sign = BadTok.sign
    /\ call.target = URLPlay
    /\ call.resp.status = 200
    /\ call.resp.fetched
    /\ call.resp.body = PlaylistText
    /\ \E i \in 1..Len(srv.m3u8Cache.items) :
           /\ srv.m3u8Cache.items[i].key = URLPlay
           /\ srv.m3u8Cache.items[i].data # PlaylistText
           /\ call.at <= srv.m3u8Cache.items[i].expiresAt

-----------------------------------------------------------------------------
(* SpecFetch: /play, /seg, /key and /raw over an upstream that fails,      *)
(* answers another status, or declares a length around the limit           *)

FetchMaxReqs == 1                     \* earlier requests in one run

\* maxPlaylistKB*1024, the limit of fetchContent on the declared length
FetchLimit == config.MaxPlaylistKB * 1024

\* s twice
Twice(s) == s \o s

\* a payload of n bytes
RECURSIVE Payload(_)
Payload(n) ==
    IF n = 0 THEN <<>>
    ELSE Twice(Payload(n \div 2)) \o (IF n % 2 = 1 THEN <<"x">> ELSE <<>>)

\* what the upstream does on the fetch of url: the connection fails or times
\* out; a 404 with a body; the origin's bytes with and without a declared
\* length; a payload of exactly the limit that declares its length; a
\* payload over the limit that declares its length, and one that does not
FetchAnswers(url) ==
    LET answer(err, status, contentLength, body) ==
            [err |-> err, status |-> status, contentLength |-> contentLength,
             contentType |-> <<>>, body |-> body]
    IN { answer(TRUE, 0, <<>>, <<>>),
         answer(FALSE, 404, <<"1">>, <<"N">>),
         answer(FALSE, 200, <<>>, Origin(url)),
         answer(FALSE, 200, FormatInt(Len(Origin(url))), Origin(url)),
         answer(FALSE, 200, FormatInt(FetchLimit), Payload(FetchLimit)),
         answer(FALSE, 200, FormatInt(FetchLimit + 1), Payload(FetchLimit + 1)),
         answer(FALSE, 200, <<>>, Payload(FetchLimit + 1)) }

\* the requests of the run: a playlist, a segment and a URL of a host that is
\* not allowed, with the token /sign gives now and with none
FetchRequests ==
    UNION { { Request(url, tok) : tok \in { NoTok, TokenFor(url, now) } } :
                url \in { URLPlay, URLSeg, URLEvil } }

\* an earlier request that is accepted and answered with the origin's bytes:
\* /play for the playlist, /seg and /key for the segment
WarmTargets == { <<"play", URLPlay>>, <<"seg", URLSeg>>, <<"key", URLSeg>> }

FetchWarm(fn, url) ==
    /\ call = NoCall
    /\ hist.ops < FetchMaxReqs
    /\ \E r \in { Request(url, TokenFor(url, now)) } :
       \E up \in { [err |-> FALSE, status |-> 200, contentLength |-> <<>>,
                    contentType |-> <<>>, body |-> Origin(url)] } :
       \E out \in { IF fn = "play" THEN handlePlay(r, up)
                     ELSE IF fn = "seg" THEN handleSegment(r, up)
                     ELSE handleKey(r, up) } :
           /\ hist' = [hist EXCEPT !.ops = @ + 1]
           /\ srv' = out.srv
           /\ UNCHANGED <<now, call, signer, issued, cache, config, mu, thr>>

\* call is the request the run looks at, with the upstream's answer to its
\* fetch, were one made, and the caches as the request found them
RecordFetch(fn, r, up, out) ==
    /\ call' = [fn |-> fn, r |-> r, target |-> SanitizeURL(r.url), at |-> now,
                resp |-> out.resp, up |-> up, before |-> srv]
    /\ srv' = out.srv
    /\ UNCHANGED <<now, signer, issued, cache, hist, config, mu, thr>>

\* the handler of an endpoint
FetchHandler(fn, r, up) ==
    IF fn = "play" THEN handlePlay(r, up)
    ELSE IF fn = "seg" THEN handleSegment(r, up)
    ELSE IF fn = "key" THEN handleKey(r, up)
    ELSE handleRaw(r, up)

\* the requests of a run with the upstream's answer to each: the earlier ones
\* of WarmTargets, and the one the run looks at, on any of the four endpoints
FetchCalls ==
    { [fn |-> w[1], r |-> Request(w[2], TokenFor(w[2], now)), observed |-> FALSE,
       up |-> [err |-> FALSE, status |-> 200, contentLength |-> <<>>,
               contentType |-> <<>>, body |-> Origin(w[2])]] : w \in WarmTargets }
    \cup UNION { { [fn |-> fn, r |-> r, observed |-> TRUE, up |-> up] :
                      fn \in { "play", "seg", "key", "raw" }, up \in FetchAnswers(r.url) } :
                  r \in FetchRequests }

\* the server answers q; an earlier request leaves its trace in the caches
\* only, the request the run looks at is recorded in call
FetchServe(q) ==
    /\ call = NoCall
    /\ q.observed \/ hist.ops < FetchMaxReqs
    /\ \E out \in { FetchHandler(q.fn, q.r, q.up) } :
           IF q.observed
           THEN RecordFetch(q.fn, q.r, q.up, out)
           ELSE /\ hist' = [hist EXCEPT !.ops = @ + 1]
                /\ srv' = out.srv
                /\ UNCHANGED <<now, call, signer, issued, cache, config, mu, thr>>

InitFetch ==
    /\ now = 0
    /\ call = NoCall
    /\ signer = SignerNew(SecretA, SrvSignTTL, TRUE)
    /\ issued = NoToken
    /\ cache = NoCache
    /\ hist = NoHist
    /\ config \in { ServerConfig(e) : e \in BOOLEAN }
    /\ srv = ServerCaches
    /\ mu = NoLock
    /\ thr = NoThreads

NextFetch ==
    \/ call = NoCall /\ ServerTick
    \/ call = NoCall /\ \E q \in FetchCalls : FetchServe(q)

SpecFetch == InitFetch /\ [][NextFetch]_vars

\* the request passes the checks of its handler
FetchAccepted ==
    IF call.fn = "raw"
    THEN /\ call.r.url # <<>>
         /\ call.target # <<>>
         /\ IsAllowedHost(call.target, config.AllowHosts)
    ELSE FirstFailure(call) = 0

\* the cache of the endpoint fn among the caches s; /raw has none
CacheOf(s, fn) ==
    IF fn = "play" THEN s.m3u8Cache
    ELSE IF fn = "seg" THEN s.tsCache
    ELSE IF fn = "key" THEN s.keyCache
    ELSE NoCache

\* the request found an entry for its target that had not expired
FoundLive ==
    \E i \in 1..Len(CacheOf(call.before, call.fn).items) :
        /\ CacheOf(call.before, call.fn).items[i].key = call.target
        /\ call.at <= CacheOf(call.before, call.fn).items[i].expiresAt

\* the upstream declares a length in digits that is over the limit
DeclaredOver(up) ==
    IsDecimal(up.contentLength) /\ DecimalValue(up.contentLength) > FetchLimit

\* the fetch fails: no answer, another status than 200, a declared length
\* over the limit
UpstreamFails(up) == up.err \/ up.status # 200 \/ DeclaredOver(up)

\* the entries of the three caches s, each with the cache it is in
Entries(s) ==
    { <<"m3u8", s.m3u8Cache.items[i]>> : i \in 1..Len(s.m3u8Cache.items) }
    \cup { <<"ts", s.tsCache.items[i]>> : i \in 1..Len(s.tsCache.items) }
    \cup { <<"key", s.keyCache.items[i]>> : i \in 1..Len(s.keyCache.items) }

\* C21: a request to /play, /seg, /key or /raw fetches from the upstream
\* exactly when it is accepted and finds no live cache entry, and it is served
\* from the cache exactly when it is accepted and finds one, so it never does
\* both and a rejected request does neither; when the fetch fails (no answer,
\* a status other than 200, a declared length over the limit) the answer is
\* 502 without a body and the caches hold no entry that they did not hold
\* before; an entry is new or changed only after a fetch that succeeded.
C21_OneFetchNoRetry ==
    call.fn \in { "play", "seg", "key", "raw" } =>
        /\ call.resp.fetched = (FetchAccepted /\ ~FoundLive)
        /\ call.resp.hit = (FetchAccepted /\ FoundLive)
        /\ (call.resp.fetched /\ UpstreamFails(call.up)) =>
               /\ call.resp.status = 502
               /\ call.resp.body = <<>>
               /\ Entries(srv) \subseteq Entries(call.before)
        /\ ~(Entries(srv) \subseteq Entries(call.before)) =>
               (call.resp.fetched /\ ~UpstreamFails(call.up))

\* a /seg request that finds its entry expired fetches, the upstream declares
\* a length over the limit, and the request ends with 502
C21_Witness ==
    /\ call.fn = "seg"
    /\ call.resp.fetched
    /\ DeclaredOver(call.up)
    /\ call.resp.status = 502
    /\ call.target \in Keys(call.before.tsCache.items)
    /\ ~FoundLive

\* what fetchContent makes of the upstream's answer to the last request
Fetched == fetchContent(call.target, call.up)

\* C22: for a request to /play, /seg, /key or /raw that fetches, fetchContent
\* fails and hands on no byte of the body when the upstream status is not 200
\* or the declared Content-Length is over maxPlaylistKB*1024; it succeeds with
\* the whole body for a 200 answer that declares a length within the limit or
\* declares none, however long the body; a failure is answered 502 and a
\* success is not, on each of the four endpoints alike.
C22_FetchSizeAndStatusGate ==
    (call.fn \in { "play", "seg", "key", "raw" } /\ call.resp.fetched) =>
        /\ (~call.up.err /\ (call.up.status # 200 \/ DeclaredOver(call.up))) =>
               (Fetched.err /\ Fetched.content = <<>>)
        /\ (~call.up.err /\ call.up.status = 200 /\ ~DeclaredOver(call.up)) =>
               (~Fetched.err /\ Fetched.content = call.up.body)
        /\ Fetched.err = (call.resp.status = 502)
        /\ (~Fetched.err /\ call.fn \in { "seg", "key", "raw" }) =>
               (call.resp.status = 200 /\ call.resp.body = call.up.body)
        /\ (~Fetched.err /\ call.fn = "play") =>
               /\ call.resp.status = 200
               /\ \/ call.resp.body = call.up.body
                  \/ /\ config.EnableM3U8
                     /\ call.resp.ctype = MimeHLS
                     /\ srv.m3u8Cache.items[1].data = call.resp.body

\* /key serves a body longer than the limit that came without Content-Length
C22_Witness ==
    /\ call.fn = "key"
    /\ call.resp.fetched
    /\ call.up.contentLength = <<>>
    /\ Len(call.up.body) > FetchLimit
    /\ call.resp.status = 200
    /\ call.resp.body = call.up.body

-----------------------------------------------------------------------------
(* /seg and /key under SpecServer: what is served, and from where          *)

\* the last request is an accepted /seg request with the header Range:
\* bytes=1-2 whose payload, fetched or cached, is at hand
SegRangeServed ==
    /\ call.fn = "seg"
    /\ FirstFailure(call) = 0
    /\ call.r.range = RangeHeader
    /\ call.resp.hit \/ call.resp.status # 502

\* C23: an accepted /seg request with a valid single Range header is answered
\* 206 with the requested slice of the segment and the matching Content-Range,
\* when the segment was fetched for it and when it came from the segment
\* cache alike.
C23_SegRangeOnHitAndMiss ==
    SegRangeServed =>
        /\ call.resp.status = 206
        /\ call.resp.body = SubSeq(Origin(call.target), 2, 3)
        /\ call.resp.crange = <<"b", "y", "t", "e", "s", " ", "1", "-", "2", "/">>
                              \o DecimalOf(Len(Origin(call.target)))

-----------------------------------------------------------------------------
(* internal/headers: the rules of the configuration applied to the headers *)
(* of an upstream request.  A rule is [Match, UseRegex, Set, HostRewrite]; *)
(* a header map is a function from header names to values                  *)

\* regexp for the patterns made of letters, ".", "\" before a character,
\* "*" after an item, "^" in front and "$" at the end: the items of the
\* pattern between the anchors, each [any, ch, star]
RECURSIVE RegexItems(_)
RegexItems(p) ==
    IF p = <<>> THEN <<>>
    ELSE LET esc  == p[1] = "\\"
             n    == IF esc THEN 2 ELSE 1
             star == Len(p) > n /\ p[n + 1] = "*"
         IN <<[any |-> ~esc /\ p[1] = ".", ch |-> p[n], star |-> star]>>
            \o RegexItems(From(p, n + (IF star THEN 2 ELSE 1)))

RegexAnchoredStart(p) == p # <<>> /\ p[1] = "^"

RegexAnchoredEnd(p) ==
    /\ p # <<>> /\ p[Len(p)] = "$"
    /\ ~(Len(p) > 1 /\ p[Len(p) - 1] = "\\")

RegexBody(p) ==
    SubSeq(p, IF RegexAnchoredStart(p) THEN 2 ELSE 1,
              IF RegexAnchoredEnd(p) THEN Len(p) - 1 ELSE Len(p))

\* regexp.Compile fails: "*" without an item before it, or a "\" at the end
RECURSIVE RegexBodyValid(_)
RegexBodyValid(b) ==
    IF b = <<>> THEN TRUE
    ELSE IF b[1] = "*" THEN FALSE
    ELSE IF b[1] = "\\"
    THEN Len(b) > 1 /\ RegexBodyValid(From(b, IF Len(b) > 2 /\ b[3] = "*" THEN 4 ELSE 3))
    ELSE IF Len(b) > 1 /\ b[2] = "*" THEN RegexBodyValid(From(b, 3))
    ELSE RegexBodyValid(From(b, 2))

RegexValid(p) == RegexBodyValid(RegexBody(p))

\* the items from the i-th on match text from position j on
RECURSIVE RegexMatchHere(_, _, _, _, _)
RegexMatchHere(items, i, text, j, toEnd) ==
    IF i > Len(items) THEN (toEnd => j > Len(text))
    ELSE LET it == items[i]
             ok(m) == it.any \/ text[m] = it.ch
         IN IF it.star
            THEN \E k \in j..(Len(text) + 1) :
                     /\ \A m \in j..(k - 1) : ok(m)
                     /\ RegexMatchHere(items, i + 1, text, k, toEnd)
            ELSE /\ j <= Len(text)
                 /\ ok(j)
                 /\ RegexMatchHere(items, i + 1, text, j + 1, toEnd)

\* regexp.MatchString(pattern, s): [matched, err]
MatchString(pattern, s) ==
    IF ~RegexValid(pattern) THEN [matched |-> FALSE, err |-> TRUE]
    ELSE LET items  == RegexItems(RegexBody(pattern))
             starts == IF RegexAnchoredStart(pattern) THEN { 1 } ELSE 1..(Len(s) + 1)
         IN [matched |-> \E j \in starts :
                             RegexMatchHere(items, 1, s, j, RegexAnchoredEnd(pattern)),
             err |-> FALSE]

\* HeaderManager.matchesRule
matchesRule(hostname, rule) ==
    IF rule.UseRegex
    THEN LET m == MatchString(rule.Match, hostname) IN ~m.err /\ m.matched
    ELSE Contains(hostname, rule.Match)

\* the map m with the entries of the map set written over it
Overwrite(m, set) ==
    [k \in DOMAIN m \cup DOMAIN set |-> IF k \in DOMAIN set THEN set[k] ELSE m[k]]

\* the loop of ProcessHeaders keeping the first value written to a header
RECURSIVE applyRules_FirstWins(_, _, _, _)
applyRules_FirstWins(rules, i, hostname, result) ==
    IF i > Len(rules) THEN result
    ELSE IF matchesRule(hostname, rules[i])
    THEN LET rest == applyRules_FirstWins(rules, i + 1, hostname, result)
             set  == Overwrite(rest, rules[i].Set)
         IN IF rules[i].HostRewrite
            THEN Overwrite(set, [k \in { "Host" } |-> hostname])
            ELSE set
    ELSE applyRules_FirstWins(rules, i + 1, hostname, result)

\* the loop of ProcessHeaders over the rules from the i-th on
RECURSIVE applyRules(_, _, _, _)
applyRules(rules, i, hostname, result) ==
    IF i > Len(rules) THEN result
    ELSE IF matchesRule(hostname, rules[i])
    THEN LET set == Overwrite(result, rules[i].Set) IN
         applyRules(rules, i + 1, hostname,
                    IF rules[i].HostRewrite
                    THEN Overwrite(set, [k \in { "Host" } |-> hostname])
                    ELSE set)
    ELSE applyRules(rules, i + 1, hostname, result)

\* HeaderManager.ProcessHeaders: the map returned, and the map passed in as
\* the call leaves it
ProcessHeaders(rules, targetURL, originalHeaders) ==
    LET result == [k \in DOMAIN originalHeaders |-> originalHeaders[k]]
        parsed == ParseURL(targetURL)
    IN [originalHeaders |-> originalHeaders,
        result |-> IF parsed.err THEN result
                   ELSE applyRules(rules, 1, Hostname(parsed), result)]

-----------------------------------------------------------------------------
(* SpecHeaders: ProcessHeaders applied to rule lists, URLs and header maps *)

MaxRules == 2                         \* rules in the configuration

NoHeaders == [k \in {} |-> <<>>]

\* the rules the lists are made of
RulePool ==
    LET rule(match, useRegex, set, hostRewrite) ==
            [Match |-> match, UseRegex |-> useRegex, Set |-> set,
             HostRewrite |-> hostRewrite]
    IN { rule(<<"h", ".", "c">>, FALSE, [k \in { "User-Agent" } |-> <<"a">>], FALSE),
         rule(<<"c">>, FALSE, ("User-Agent" :> <<"b">>) @@ ("Referer" :> <<"r">>), FALSE),
         rule(<<"c">>, FALSE, [k \in { "Host" } |-> <<"x">>], FALSE),
         rule(<<"h">>, FALSE, NoHeaders, TRUE),
         rule(<<"h", ".", "c">>, TRUE, ("Host" :> <<"y">>) @@ ("User-Agent" :> <<"c">>), TRUE),
         rule(<<"^", "o", "\\", ".", "c", "$">>, TRUE, [k \in { "User-Agent" } |-> <<"o">>], FALSE),
         rule(<<"*", "h">>, TRUE, [k \in { "User-Agent" } |-> <<"n">>], TRUE),
         rule(<<"h", ".", "*">>, FALSE, [k \in { "Referer" } |-> <<"l">>], FALSE),
         rule(<<"h", ".", "*", "c", "$">>, TRUE, [k \in { "Referer" } |-> <<"s">>], FALSE),
         rule(<<>>, FALSE, [k \in { "Accept" } |-> <<"e">>], FALSE) }

RuleLists == UNION { [1..n -> RulePool] : n \in 0..MaxRules }

\* target URLs: the hosts h.c, o.c and hoc, h.c with a port, and a URL that
\* url.Parse refuses
HeaderURLs ==
    { URLPlay, URLEvil, <<"h", "t", "t", "p", ":", "/", "/", "h", "o", "c", "/">>, <<"h", "t", "t", "p", ":", "/", "/", "h", ".", "c", ":", "8", "/", "a">>, <<"h", "t", "t", "p", ":", "/", "/", "h", " ", "c", "/">> }

\* the headers fetchContent passes in, and a map that holds a Host already
BaseHeaders ==
    { [k \in { "User-Agent" } |-> <<"u">>],
      ("User-Agent" :> <<"u">>) @@ ("Host" :> <<"b">>) }

HeadersCall ==
    /\ call.fn = "input"
    /\ \E out \in { ProcessHeaders(call.rules, call.targetURL, call.originalHeaders) } :
           call' = [fn |-> "ProcessHeaders", rules |-> call.rules,
                    targetURL |-> call.targetURL,
                    originalHeaders |-> call.originalHeaders, out |-> out]
    /\ UNCHANGED <<now, signer, issued, cache, hist, config, srv, mu, thr>>

InitHeaders ==
    /\ now = 0
    /\ call \in { [fn |-> "input", rules |-> rules, targetURL |-> url,
                   originalHeaders |-> base] :
                      rules \in RuleLists, url \in HeaderURLs, base \in BaseHeaders }
    /\ signer = NoSigner
    /\ issued = NoToken
    /\ cache = NoCache
    /\ hist = NoHist
    /\ config = NoConfig
    /\ srv = NoServer
    /\ mu = NoLock
    /\ thr = NoThreads

NextHeaders == HeadersCall

SpecHeaders == InitHeaders /\ [][NextHeaders]_vars

\* the call's target URL parses, and the hostname url.Parse gives for it
TargetParses == ~ParseURL(call.targetURL).err

TargetHostname == Hostname(ParseURL(call.targetURL))

\* the i-th rule matches the hostname: its pattern occurs in it, or, for a
\* regex rule, is a valid pattern that matches it
RuleMatches(i) ==
    LET rule == call.rules[i] IN
    IF rule.UseRegex
    THEN RegexValid(rule.Match) /\ MatchString(rule.Match, TargetHostname).matched
    ELSE \E a \in 1..(Len(TargetHostname) + 1), b \in 0..Len(TargetHostname) :
             SubSeq(TargetHostname, a, b) = rule.Match

\* the matching rules that set the header name; a rule that asks for
\* host-rewrite sets Host
Setters(name) ==
    { i \in 1..Len(call.rules) :
          /\ RuleMatches(i)
          /\ \/ name \in DOMAIN call.rules[i].Set
             \/ name = "Host" /\ call.rules[i].HostRewrite }

Last(S) == CHOOSE i \in S : \A j \in S : j <= i

\* what the i-th rule sets the header name to
ValueSet(i, name) ==
    IF name = "Host" /\ call.rules[i].HostRewrite THEN TargetHostname
    ELSE call.rules[i].Set[name]

HeaderNames == { "User-Agent", "Referer", "Host", "Accept" }

\* C24: ProcessHeaders leaves the map passed in as it was and returns a map
\* in which every header name has the value of the last rule in list order
\* that matches the target's hostname and sets the name, or its value in the
\* map passed in when no matching rule sets it, and no other name; a rule
\* matches iff its pattern occurs in the hostname or, for a regex rule, is a
\* valid pattern matching it; a rule asking for host-rewrite counts as
\* setting Host to the hostname.
C24_RulesApplyInOrder ==
    (call.fn = "ProcessHeaders" /\ TargetParses) =>
        /\ call.out.originalHeaders = call.originalHeaders
        /\ \A i \in 1..Len(call.rules) :
               RuleMatches(i) = matchesRule(TargetHostname, call.rules[i])
        /\ \A name \in HeaderNames :
               IF Setters(name) # {}
               THEN /\ name \in DOMAIN call.out.result
                    /\ call.out.result[name] = ValueSet(Last(Setters(name)), name)
               ELSE IF name \in DOMAIN call.originalHeaders
               THEN /\ name \in DOMAIN call.out.result
                    /\ call.out.result[name] = call.originalHeaders[name]
               ELSE name \notin DOMAIN call.out.result
        /\ DOMAIN call.out.result \subseteq HeaderNames

\* two matching rules set User-Agent to different values, a rule with an
\* invalid pattern or one that does not match the host stands beside them
C24_Witness ==
    /\ call.fn = "ProcessHeaders" /\ TargetParses
    /\ Len(call.rules) = 2
    /\ RuleMatches(1) /\ RuleMatches(2)
    /\ "User-Agent" \in DOMAIN call.rules[1].Set
    /\ "User-Agent" \in DOMAIN call.rules[2].Set
    /\ call.rules[1].Set["User-Agent"] # call.rules[2].Set["User-Agent"]
    /\ call.out.result["User-Agent"] = call.rules[2].Set["User-Agent"]

\* C25: when a rule that matches the target's hostname asks for host-rewrite,
\* the Host entry of the map ProcessHeaders returns is the target's hostname
\* without the port, whatever Host values the matching rules set and wherever
\* the rule stands in the list.
C25_HostRewriteWins ==
    (call.fn = "ProcessHeaders" /\ TargetParses
       /\ \E i \in 1..Len(call.rules) : RuleMatches(i) /\ call.rules[i].HostRewrite) =>
        /\ "Host" \in DOMAIN call.out.result
        /\ call.out.result["Host"] = TargetHostname

-----------------------------------------------------------------------------
(* SpecDetect: IsM3U8Content applied to contents of a few lines, and to    *)
(* contents with a line as long as the scanner's buffer                    *)

DetectLines == 3                      \* lines of a content

\* lines: the directive, bare and with white space around it and text after
\* it, blank lines, comments, content, and the directive's letters elsewhere
DetectPool ==
    { <<"#", "E", "X", "T", "M", "3", "U">>, <<" ", "#", "E", "X", "T", "M", "3", "U", "\r">>, <<"#", "E", "X", "T", "M", "3", "U", "8">>, <<>>, <<" ", "\r">>, <<"#", "c">>, <<"s">>,
      <<"x", "#", "E", "X", "T", "M", "3", "U">>, <<"#", "e", "x", "t", "m", "3", "u">> }

\* a comment line of n bytes
LongComment(n) == <<"#">> \o Payload(n - 1)

\* a comment line one byte short of the scanner's limit, and one that
\* reaches it, each followed by the directive or by a content line
LongContents ==
    { LongComment(n) \o <<"\n">> \o next :
          n \in { MaxScanTokenSize - 1, MaxScanTokenSize }, next \in { <<"#", "E", "X", "T", "M", "3", "U">>, <<"s">> } }

DetectContents ==
    { Join(lines, <<"\n">>) : lines \in UNION { [1..n -> DetectPool] : n \in 1..DetectLines } }
    \cup LongContents

DetectCall ==
    /\ call.fn = "input"
    /\ call' = [fn |-> "IsM3U8Content", content |-> call.content,
                out |-> IsM3U8Content(call.content)]
    /\ UNCHANGED <<now, signer, issued, cache, hist, config, srv, mu, thr>>

InitDetect ==
    /\ now = 0
    /\ call \in { [fn |-> "input", content |-> content] : content \in DetectContents }
    /\ signer = NoSigner
    /\ issued = NoToken
    /\ cache = NoCache
    /\ hist = NoHist
    /\ config = NoConfig
    /\ srv = NoServer
    /\ mu = NoLock
    /\ thr = NoThreads

NextDetect == DetectCall

SpecDetect == InitDetect /\ [][NextDetect]_vars

\* the lines of the content, each without the white space around it
TrimmedLines ==
    LET lines == Split(call.content, "\n") IN
    [i \in 1..Len(lines) |-> TrimSpace(lines[i])]

\* C26: IsM3U8Content returns true iff some line that starts with #EXTM3U
\* once trimmed comes before every line that, once trimmed, is neither blank
\* nor starts with "#"; blank lines and comment lines before #EXTM3U do not
\* prevent detection.
C26_DetectsDirectiveBeforeContent ==
    call.fn = "IsM3U8Content" =>
        call.out = \E i \in 1..Len(TrimmedLines) :
                       /\ HasPrefix(TrimmedLines[i], ExtM3U)
                       /\ \A j \in 1..(i - 1) :
                              TrimmedLines[j] = <<>> \/ HasPrefix(TrimmedLines[j], <<"#">>)

-----------------------------------------------------------------------------
(* SpecSegSize: /seg over segments around the size up to which they are    *)
(* cached, with the segment cache enabled and disabled                     *)

\* the upstream's answer to the fetch of a segment: a 404, the origin's
\* bytes, a payload one byte under 1 MB and one of exactly 1 MB, all without
\* Content-Length
SizeAnswers(url) ==
    LET answer(status, body) ==
            [err |-> FALSE, status |-> status, contentLength |-> <<>>,
             contentType |-> <<>>, body |-> body]
    IN { answer(404, <<>>), answer(200, Origin(url)),
         answer(200, Payload(SegCacheLimit - 1)), answer(200, Payload(SegCacheLimit)) }

\* requests for the segment with and without a token and a Range header, and
\* one for a host that is not allowed
SizeRequests ==
    { Request(URLSeg, tok) : tok \in { NoTok, TokenFor(URLSeg, now) } }
    \cup { [Request(URLSeg, TokenFor(URLSeg, now)) EXCEPT !.range = RangeHeader],
           Request(URLEvil, NoTok) }

\* the cache c holds data under key
Holds(c, key, data) ==
    \E i \in 1..Len(c.items) : c.items[i].key = key /\ c.items[i].data = data

\* /seg answers r; call is what the request shows: the status, whether the
\* handler fetched, the size of the payload the upstream sent, whether the
\* body served is that payload, whether the segment cache holds it afterwards
\* and whether the cache was enabled
SizeSeg(r, up) ==
    /\ call = NoCall
    /\ \E out \in { handleSegment(r, up) } :
           /\ call' = [fn |-> "seg", r |-> r, target |-> SanitizeURL(r.url), at |-> now,
                       status |-> out.resp.status, fetched |-> out.resp.fetched,
                       size |-> Len(up.body), whole |-> out.resp.body = up.body,
                       stored |-> Holds(out.srv.tsCache, SanitizeURL(r.url), up.body),
                       enabled |-> CacheIsEnabled(srv.tsCache)]
           /\ srv' = out.srv
    /\ UNCHANGED <<now, signer, issued, cache, hist, config, mu, thr>>

InitSegSize ==
    /\ now = 0
    /\ call = NoCall
    /\ signer \in { SignerNew(SecretA, SrvSignTTL, e) : e \in BOOLEAN }
    /\ issued = NoToken
    /\ cache = NoCache
    /\ hist = NoHist
    /\ config = ServerConfig(TRUE)
    /\ srv \in { [ServerCaches EXCEPT !.tsCache = CacheNew(SrvCacheCap, CacheTTL, e)] :
                     e \in BOOLEAN }
    /\ mu = NoLock
    /\ thr = NoThreads

NextSegSize ==
    \/ call = NoCall /\ ServerTick
    \/ FetchWarm("seg", URLSeg)
    \/ call = NoCall /\ \E r \in SizeRequests : \E up \in SizeAnswers(r.url) : SizeSeg(r, up)

SpecSegSize == InitSegSize /\ [][NextSegSize]_vars

\* the last request is an accepted /seg request whose fetch brought a payload
SegFetchedPayload == call.fn = "seg" /\ call.fetched /\ call.status # 502

\* C27: after an accepted /seg request that fetched the payload P for the URL
\* U, the segment cache holds U -> P iff the segment cache is enabled and
\* len(P) < 1048576; a payload of 1 MB or more is served whole and not stored.
C27_SegCachedIffUnderLimit ==
    SegFetchedPayload =>
        /\ call.stored = (call.enabled /\ call.size < 1048576)
        /\ call.r.range = <<>> => (call.status = 200 /\ call.whole)

\* with the cache enabled a segment of exactly 1 MB is served and not stored
C27_Witness ==
    /\ SegFetchedPayload
    /\ call.enabled
    /\ call.size = 1048576
    /\ call.status = 200 /\ call.whole
    /\ ~call.stored

-----------------------------------------------------------------------------
(* plugins/goproxy: the checks of the /proxy endpoint before it builds the *)
(* upstream request.  The configuration cfg is [Allow, SignRequired,       *)
(* SignSecret], a request q is [method, url, sign]                         *)

\* isHostAllowed against the list of the -allow flags
isHostAllowed(host, allow) ==
    IF Len(allow) = 0 THEN TRUE
    ELSE \E i \in 1..Len(allow) :
             host = allow[i] \/ HasSuffix(host, <<".">> \o allow[i])

\* verifySignature
verifySignature(data, signature, secret) ==
    IF secret = <<>> THEN FALSE ELSE signature = HmacHex(secret, data)

\* proxyHandler up to the signature check: the status it answers with, or 0
\* when it goes on to the cache and the upstream
proxyChecks(q, cfg) ==
    LET parsedURL == ParseURL(q.url) IN
    IF q.method = "OPTIONS" THEN 200
    ELSE IF q.url = <<>> THEN 400
    ELSE IF parsedURL.err THEN 400
    ELSE IF ~isHostAllowed(parsedURL.Host, cfg.Allow) THEN 403
    ELSE IF cfg.SignRequired
            /\ (q.sign = <<>> \/ ~verifySignature(q.url, q.sign, cfg.SignSecret)) THEN 401
    ELSE 0

-----------------------------------------------------------------------------
(* SpecGoproxy: the checks of /proxy applied to allow lists and target URLs *)

\* the -allow flags given
GoproxyAllowLists == { <<>>, <<HostH>>, <<HostO, HostH>>, <<<<"c">>>> }

\* target URLs: the host h.c, a sub-domain of it, a host that only ends in
\* its letters and the host o.c, each with and without a port; a URL without
\* a scheme, one that url.Parse refuses, and none
GoproxyURLs ==
    { HttpPrefix \o host \o port \o <<"/", "p">> :
          host \in { HostH, <<"a", ".", "h", ".", "c">>, <<"a", "h", ".", "c">>, HostO }, port \in { <<>>, <<":", "8", "0">> } }
    \cup { <<"h", ".", "c", "/", "p">>, <<"h", "t", "t", "p", ":", "/", "/", "h", " ", "c", "/">>, <<>> }

GoproxyConfigs ==
    { [Allow |-> allow, SignRequired |-> signRequired, SignSecret |-> SecretA] :
          allow \in GoproxyAllowLists, signRequired \in BOOLEAN }

GoproxyRequests ==
    { [method |-> method, url |-> url, sign |-> sign] :
          method \in { "GET", "OPTIONS" }, url \in GoproxyURLs,
          sign \in { <<>>, HmacHex(SecretA, URLPlay) } }

GoproxyCall ==
    /\ call.fn = "input"
    /\ call' = [fn |-> "proxy", q |-> call.q, cfg |-> call.cfg,
                status |-> proxyChecks(call.q, call.cfg)]
    /\ UNCHANGED <<now, signer, issued, cache, hist, config, srv, mu, thr>>

InitGoproxy ==
    /\ now = 0
    /\ call \in { [fn |-> "input", q |-> q, cfg |-> cfg] :
                      q \in GoproxyRequests, cfg \in GoproxyConfigs }
    /\ signer = NoSigner
    /\ issued = NoToken
    /\ cache = NoCache
    /\ hist = NoHist
    /\ config = NoConfig
    /\ srv = NoServer
    /\ mu = NoLock
    /\ thr = NoThreads

NextGoproxy == GoproxyCall

SpecGoproxy == InitGoproxy /\ [][NextGoproxy]_vars

\* the host the target URL names, without the port
GoproxyTargetHost == Hostname(ParseURL(call.q.url))

\* the host is an entry of the allow list or a sub-domain of one
GoproxyHostListed ==
    \E i \in 1..Len(call.cfg.Allow) :
        \/ GoproxyTargetHost = call.cfg.Allow[i]
        \/ /\ Len(GoproxyTargetHost) > Len(call.cfg.Allow[i]) + 1
           /\ From(GoproxyTargetHost, Len(GoproxyTargetHost) - Len(call.cfg.Allow[i]))
                  = <<".">> \o call.cfg.Allow[i]

\* C28: a GET request to /proxy whose target URL parses is answered 403 iff
\* the allow list is not empty and the host of the target URL is neither an
\* entry of it nor a sub-domain of an entry, and is proxied otherwise when no
\* signature is required; with no -allow flag every host is let through; a
\* port in the target URL does not change the decision.
C28_GoproxyAllowList ==
    (call.fn = "proxy" /\ call.q.method = "GET" /\ call.q.url # <<>>
       /\ ~ParseURL(call.q.url).err) =>
        /\ (call.status = 403) = (call.cfg.Allow # <<>> /\ ~GoproxyHostListed)
        /\ (call.status = 0 /\ call.cfg.Allow # <<>>) => GoproxyHostListed
        /\ (~call.cfg.SignRequired /\ (call.cfg.Allow = <<>> \/ GoproxyHostListed)) =>
               call.status = 0

-----------------------------------------------------------------------------
(* /seg and /key serve what the origin sent, playlist or not.              *)

\* a /seg or /key request answered with bytes of the resource
ServedDownstream ==
    call.fn \in { "seg", "key" } /\ call.resp.status \in { 200, 206 }

\* the bytes the segment and key caches hold for their keys
DownstreamCopies ==
    { <<srv.tsCache.items[i].key, srv.tsCache.items[i].data>> :
          i \in 1..Len(srv.tsCache.items) }
    \cup { <<srv.keyCache.items[i].key, srv.keyCache.items[i].data>> :
               i \in 1..Len(srv.keyCache.items) }

\* C30: /seg and /key never rewrite: with status 200 the body is the
\* origin's payload for the target byte for byte, whether it was fetched or
\* comes from the cache, with status 206 (on /seg) it is the requested slice
\* of that payload, and the segment and key caches hold only the origin's
\* payloads; this is so when rewriting is enabled and the payload is a
\* playlist.
C30_DownstreamNeverRewrites ==
    /\ \A e \in DownstreamCopies : e[2] = Origin(e[1])
    /\ ServedDownstream =>
           /\ call.resp.status = 200 => call.resp.body = Origin(call.target)
           /\ call.resp.status = 206 =>
                  /\ call.fn = "seg"
                  /\ call.r.range = RangeHeader
                  /\ call.resp.body = SubSeq(Origin(call.target), 2, 3)

\* /seg, with rewriting enabled, fetched a playlist and served it as it is
C30_Witness ==
    /\ call.fn = "seg"
    /\ config.EnableM3U8
    /\ call.resp.status = 200
    /\ call.resp.fetched
    /\ IsM3U8Content(call.resp.body)
    /\ call.resp.body = PlaylistText
    /\ RefsOf(call.resp.body) = { <<"s">>, <<"k">> }

-----------------------------------------------------------------------------
(* Two requests in flight at once.  net/http runs each handler in its own  *)
(* goroutine; between a handler's cache lookup, its upstream fetch and its *)
(* store the other handler may run.  Cache.Get and Cache.Set are atomic    *)
(* (they hold the cache's lock).  thr[p] is the request of goroutine p:    *)
(* where its handler is, what it found, fetched, stored and answered;      *)
(* hist.order lists the stores in the order they happened.                 *)

FlightProcs == { 1, 2 }

FlightIdle ==
    [pc |-> "idle", fn |-> "none", r |-> Request(<<>>, NoTok), target |-> <<>>,
     missed |-> FALSE, fetched |-> FALSE, content |-> <<>>, contentType |-> <<>>,
     stored |-> FALSE, resp |-> HttpError(0)]

\* the targets asked for on each endpoint
FlightTargets(fn) == IF fn = "play" THEN { URLPlay } ELSE { URLKey, URLSeg }

\* a request with the token of its URL, or with none
FlightRequests(fn) ==
    UNION { { Request(url, TokenFor(url, now)), Request(url, NoTok) } :
                url \in FlightTargets(fn) }

\* the origin's bytes may change between two fetches; a fetch may fail
FlightAnswers(url) ==
    { [err |-> FALSE, status |-> 200, contentLength |-> <<>>, contentType |-> <<>>,
       body |-> Origin(url)],
      [err |-> FALSE, status |-> 200, contentLength |-> <<>>, contentType |-> <<>>,
       body |-> Origin(url) \o <<"\n", "t">>],
      [err |-> FALSE, status |-> 404, contentLength |-> <<>>, contentType |-> <<>>,
       body |-> <<>>] }

FlightDone(p, resp) == [thr[p] EXCEPT !.pc = "done", !.resp = resp]

\* handlePlay 170-198, handleKey 296-319: the checks before the cache
FlightAccept(p, fn, r) ==
    LET targetURL == SanitizeURL(r.url)
        t == [thr[p] EXCEPT !.fn = fn, !.r = r, !.target = targetURL]
        reject(status) == [t EXCEPT !.pc = "done", !.resp = HttpError(status)]
    IN
    /\ thr[p].pc = "idle"
    /\ thr' = [thr EXCEPT ![p] =
           IF r.url = <<>> THEN reject(400)
           ELSE IF targetURL = <<>> THEN reject(400)
           ELSE IF fn = "play" /\ Len(targetURL) > config.MaxURLLength THEN reject(400)
           ELSE IF ~IsAllowedHost(targetURL, config.AllowHosts) THEN reject(403)
           ELSE IF Verify(signer, targetURL, r.sign, r.ts, now) # ErrNil THEN reject(401)
           ELSE [t EXCEPT !.pc = "lookup"]]
    /\ UNCHANGED <<now, call, signer, issued, cache, hist, config, srv, mu>>

\* handlePlay 202-207, handleKey 323-327: the cache lookup and the answer on a hit
FlightLookup(p) ==
    /\ thr[p].pc = "lookup"
    /\ \E got \in { CacheGet(CacheOf(srv, thr[p].fn), thr[p].target, now) } :
          /\ srv' = IF thr[p].fn = "play" THEN [srv EXCEPT !.m3u8Cache = got.cache]
                    ELSE [srv EXCEPT !.keyCache = got.cache]
          /\ thr' = [thr EXCEPT ![p] =
                 IF got.found
                 THEN FlightDone(p, [Response(200, got.data,
                                              IF thr[p].fn = "play" THEN MimeHLS
                                              ELSE MimeOctet) EXCEPT !.hit = TRUE])
                 ELSE [thr[p] EXCEPT !.pc = "fetch", !.missed = TRUE]]
    /\ UNCHANGED <<now, call, signer, issued, cache, hist, config, mu>>

\* handlePlay 210-215, handleKey 330-335: the upstream fetch
FlightFetch(p, up) ==
    /\ thr[p].pc = "fetch"
    /\ \E f \in { fetchContent(thr[p].target, up) } :
          thr' = [thr EXCEPT ![p] =
              IF f.err
              THEN [FlightDone(p, HttpError(502)) EXCEPT !.fetched = TRUE]
              ELSE [thr[p] EXCEPT !.pc = "store", !.fetched = TRUE,
                                  !.content = f.content, !.contentType = f.contentType]]
    /\ UNCHANGED <<now, call, signer, issued, cache, hist, config, srv, mu>>

\* the bytes handlePlay (224) or handleKey (341) writes for the content it fetched
FlightBody(t) ==
    IF t.fn = "play"
    THEN Rewrite(NewM3U8Rewriter(<<>>, SegPrefix, KeyPrefix,
                                 BuildSignParams(t.r.sign, t.r.ts)),
                 t.content, t.target)
    ELSE t.content

\* handlePlay stores what it fetched only when it rewrites it (218)
FlightStores(t) ==
    t.fn = "key" \/ (config.EnableM3U8 /\ IsM3U8Content(t.content))

\* the store that leaves an entry another request has stored in the meantime
FlightStore_KeepsFirst(p) ==
    LET t == thr[p]
        c == CacheOf(srv, t.fn)
        present == \E i \in 1..Len(c.items) : c.items[i].key = t.target
        kept == IF present THEN c ELSE CacheSet(c, t.target, FlightBody(t), now)
    IN
    /\ t.pc = "store"
    /\ IF FlightStores(t)
       THEN /\ srv' = IF t.fn = "play" THEN [srv EXCEPT !.m3u8Cache = kept]
                      ELSE [srv EXCEPT !.keyCache = kept]
            /\ hist' = [hist EXCEPT !.order = Append(@, p)]
            /\ thr' = [thr EXCEPT ![p] =
                   [FlightDone(p, Response(200, FlightBody(t),
                                           IF t.fn = "play" THEN MimeHLS ELSE MimeOctet))
                        EXCEPT !.stored = TRUE]]
       ELSE /\ thr' = [thr EXCEPT ![p] =
                   FlightDone(p, streamContent(t.r, t.content, t.contentType))]
            /\ UNCHANGED <<srv, hist>>
    /\ UNCHANGED <<now, call, signer, issued, cache, config, mu>>

\* handlePlay 218-241, handleKey 338-341: the store and the answer
FlightStore(p) ==
    LET t == thr[p] IN
    /\ t.pc = "store"
    /\ IF FlightStores(t)
       THEN /\ srv' = IF t.fn = "play"
                      THEN [srv EXCEPT !.m3u8Cache =
                                CacheSet(@, t.target, FlightBody(t), now)]
                      ELSE [srv EXCEPT !.keyCache =
                                CacheSet(@, t.target, FlightBody(t), now)]
            /\ hist' = [hist EXCEPT !.order = Append(@, p)]
            /\ thr' = [thr EXCEPT ![p] =
                   [FlightDone(p, Response(200, FlightBody(t),
                                           IF t.fn = "play" THEN MimeHLS ELSE MimeOctet))
                        EXCEPT !.stored = TRUE]]
       ELSE /\ thr' = [thr EXCEPT ![p] =
                   FlightDone(p, streamContent(t.r, t.content, t.contentType))]
            /\ UNCHANGED <<srv, hist>>
    /\ UNCHANGED <<now, call, signer, issued, cache, config, mu>>

InitFlight ==
    /\ now = 0
    /\ call = NoCall
    /\ signer = SignerNew(SecretA, SrvSignTTL, TRUE)
    /\ issued = NoToken
    /\ cache = NoCache
    /\ hist = [order |-> <<>>]
    /\ config \in { ServerConfig(e) : e \in BOOLEAN }
    /\ srv = ServerCaches
    /\ mu = NoLock
    /\ thr = [p \in FlightProcs |-> FlightIdle]

NextFlight ==
    \/ \E p \in FlightProcs, fn \in { "play", "key" } :
           \E r \in FlightRequests(fn) : FlightAccept(p, fn, r)
    \/ \E p \in FlightProcs : FlightLookup(p)
    \/ \E p \in FlightProcs : \E up \in FlightAnswers(thr[p].target) : FlightFetch(p, up)
    \/ \E p \in FlightProcs : FlightStore(p)

SpecFlight == InitFlight /\ [][NextFlight]_vars

\* both requests are answered, they asked the same endpoint for the same
\* target, and both missed the cache
FlightBothMissed ==
    /\ \A p \in FlightProcs : thr[p].pc = "done" /\ thr[p].missed
    /\ thr[1].fn = thr[2].fn
    /\ thr[1].target = thr[2].target

\* the entries the endpoint's cache holds for the target of request p
FlightEntries(p) ==
    LET c == CacheOf(srv, thr[p].fn) IN
    { i \in 1..Len(c.items) : c.items[i].key = thr[p].target }

\* C29: nothing coalesces two requests for the same uncached target: a
\* request that missed the cache has fetched from the upstream by the time it
\* is answered, whatever the other request does; one whose fetch succeeded
\* (and whose content the endpoint stores) has stored and is answered with the
\* bytes of its own fetch; and when both missed and both stored, the cache
\* holds one entry for the key, with the bytes of the later store.  The
\* witness is the interleaving in which this happens.
C29_NoSingleFlight ==
    /\ \A p \in FlightProcs :
           (thr[p].pc = "done" /\ thr[p].missed) =>
               /\ thr[p].fetched
               /\ ~thr[p].resp.hit
               /\ thr[p].resp.status # 502 =>
                      /\ thr[p].stored = FlightStores(thr[p])
                      /\ thr[p].stored => thr[p].resp.body = FlightBody(thr[p])
                      /\ thr[p].fn = "key" => thr[p].resp.body = thr[p].content
    /\ (FlightBothMissed /\ \A p \in FlightProcs : thr[p].stored) =>
           /\ Len(hist.order) = 2
           /\ Cardinality(FlightEntries(1)) = 1
           /\ \A i \in FlightEntries(1) :
                  CacheOf(srv, thr[1].fn).items[i].data = FlightBody(thr[hist.order[2]])

\* two /key requests for one target both missed, fetched different bytes and
\* stored; the cache holds the later store's bytes and each got its own
C29_Witness ==
    /\ FlightBothMissed
    /\ thr[1].fn = "key"
    /\ \A p \in FlightProcs : thr[p].fetched /\ thr[p].stored /\ thr[p].resp.status = 200
    /\ thr[1].content # thr[2].content
    /\ \A p \in FlightProcs : thr[p].resp.body = thr[p].content
    /\ hist.order = <<2, 1>>
    /\ Cardinality(FlightEntries(1)) = 1
    /\ Holds(srv.keyCache, thr[1].target, thr[1].content)

-----------------------------------------------------------------------------
(* the playlist /play answers with, rewritten for the request or cached    *)

\* /play answered an accepted request with a rewritten playlist: one it
\* rewrote for this request, or one the playlist cache held
PlayServedRewritten ==
    /\ call.fn = "play"
    /\ call.resp.status = 200
    /\ call.resp.hit \/ PlayRewrote

\* what handlePlay answers the request of call with when it misses the cache
\* and the upstream sends the origin's bytes
PlayMissBody ==
    Rewrite(NewM3U8Rewriter(<<>>, SegPrefix, KeyPrefix,
                            BuildSignParams(call.r.sign, call.r.ts)),
            Origin(call.target), call.target)

\* C31: a /play request answered with a rewritten playlist, from the playlist
\* cache or rewritten for it, gets the body a cache miss with the same upstream
\* bytes would give it, and the segment and key URLs of the body carry the
\* sign and ts of the request being served.
C31_PlaylistCacheTransparent ==
    PlayServedRewritten =>
        /\ call.resp.body = PlayMissBody
        /\ \A q \in RefRequests(call.resp.body) :
               q.r.sign = call.r.sign /\ q.r.ts = call.r.ts

-----------------------------------------------------------------------------
(* SpecClasses: the six routes of the server over the three caches.  A run  *)
(* is a few requests, each to any route, for the playlist URL or the        *)
(* segment URL, with the token of the URL or with none.                     *)

ClassMaxReqs == 3                     \* requests in one run

ClassRoutes == { "play", "seg", "key", "raw", "sign", "health" }

\* the handler the mux routes fn to
ClassHandler(fn, r, up) ==
    IF fn = "sign" THEN handleSign(r)
    ELSE IF fn = "health" THEN handleHealth
    ELSE FetchHandler(fn, r, up)

\* a request to a route with the upstream's answer to its fetch
ClassCalls ==
    UNION { { [fn |-> fn, r |-> Request(url, tok), up |-> up] :
                  fn \in ClassRoutes, tok \in { NoTok, TokenFor(url, now) },
                  up \in UpstreamAnswers(url) } :
              url \in { URLPlay, URLSeg } }

\* the server answers q; call is the request and its response
ClassServe(q) ==
    /\ hist.ops < ClassMaxReqs
    /\ \E out \in { ClassHandler(q.fn, q.r, q.up) } :
          /\ call' = [fn |-> q.fn, r |-> q.r, target |-> SanitizeURL(q.r.url),
                      at |-> now, resp |-> out.resp]
          /\ srv' = out.srv
    /\ hist' = [hist EXCEPT !.ops = @ + 1]
    /\ UNCHANGED <<now, signer, issued, cache, config, mu, thr>>

InitClasses ==
    /\ now = 0
    /\ call = NoCall
    /\ signer = SignerNew(SecretA, SrvSignTTL, TRUE)
    /\ issued = NoToken
    /\ cache = NoCache
    /\ hist = NoHist
    /\ config \in { ServerConfig(e) : e \in BOOLEAN }
    /\ srv = ServerCaches
    /\ mu = NoLock
    /\ thr = NoThreads

NextClasses ==
    \/ ServerTick
    \/ hist.ops < ClassMaxReqs /\ \E q \in ClassCalls : ClassServe(q)

SpecClasses == InitClasses /\ [][NextClasses]_vars

\* the sign and ts a stored playlist may have been rewritten with
ClassTokens ==
    { NoTok } \cup { TokenFor(URLPlay, t) : t \in 0..SrvMaxNow }

\* the output of the rewriter for the playlist at url
IsRewriterOutput(data, url) ==
    \E tok \in ClassTokens :
        data = Rewrite(NewM3U8Rewriter(<<>>, SegPrefix, KeyPrefix,
                                       BuildSignParams(tok.sign, tok.ts)),
                       Origin(url), url)

\* c holds an entry for key with these bytes that has not expired at time t
HoldsLive(c, key, data, t) ==
    \E i \in 1..Len(c.items) :
        /\ c.items[i].key = key
        /\ c.items[i].data = data
        /\ t <= c.items[i].expiresAt

\* what the caches hold, and what the last request was served
ClassesApart ==
    /\ \A i \in 1..Len(srv.m3u8Cache.items) :
           LET e == srv.m3u8Cache.items[i] IN
           /\ config.EnableM3U8
           /\ IsM3U8Content(Origin(e.key))
           /\ IsRewriterOutput(e.data, e.key)
    /\ \A i \in 1..Len(srv.tsCache.items) :
           srv.tsCache.items[i].data = Origin(srv.tsCache.items[i].key)
    /\ \A i \in 1..Len(srv.keyCache.items) :
           srv.keyCache.items[i].data = Origin(srv.keyCache.items[i].key)
    /\ (call.fn \in { "seg", "key" } /\ call.resp.status = 200) =>
           call.resp.body = Origin(call.target)
    /\ (call.fn = "play" /\ call.resp.status = 200) =>
           IF config.EnableM3U8 /\ IsM3U8Content(Origin(call.target))
           THEN IsRewriterOutput(call.resp.body, call.target)
           ELSE call.resp.body = Origin(call.target)
    /\ call.fn \in { "raw", "sign", "health" } => ~call.resp.hit

\* a request leaves the caches of the other routes as they were, and an
\* answer from a cache comes from a live entry of the route's own cache
ClassStep ==
    hist'.ops # hist.ops =>
        /\ call'.fn # "play" => srv'.m3u8Cache = srv.m3u8Cache
        /\ call'.fn # "seg" => srv'.tsCache = srv.tsCache
        /\ call'.fn # "key" => srv'.keyCache = srv.keyCache
        /\ call'.resp.hit =>
               HoldsLive(CacheOf(srv, call'.fn), call'.target, call'.resp.body, now)
        /\ (call'.fn = "play" /\ srv'.m3u8Cache.items # srv.m3u8Cache.items
              /\ call'.resp.status = 200 /\ ~call'.resp.hit) =>
               /\ config.EnableM3U8
               /\ IsM3U8Content(call'.resp.body)

\* C32: /play reads and writes only the playlist cache, /seg only the segment
\* cache, /key only the key cache, and /raw, /sign and /health none; every
\* entry of the playlist cache is the rewriter's output for its key URL, stored
\* only when rewriting is enabled and the content is a detected playlist; and a
\* URL requested through two routes is served by each from its own bytes.
C32_CachesIsolatedPerClass == []ClassesApart /\ [][ClassStep]_vars

\* the playlist URL went through /play and /seg: the playlist cache holds the
\* rewritten playlist, the segment cache the origin's bytes under the same
\* key, and /seg answers from its own entry
C32_Witness ==
    /\ call.fn = "seg"
    /\ call.target = URLPlay
    /\ call.resp.status = 200
    /\ call.resp.hit
    /\ call.resp.body = PlaylistText
    /\ \E i \in 1..Len(srv.m3u8Cache.items) :
           /\ srv.m3u8Cache.items[i].key = URLPlay
           /\ srv.m3u8Cache.items[i].data # PlaylistText
           /\ call.at <= srv.m3u8Cache.items[i].expiresAt

-----------------------------------------------------------------------------
(* plugins/goproxy: the in-memory cache of the /proxy endpoint.  The cache  *)
(* is the set of its entries [key, Data, Headers, ExpiresAt], one per key;  *)
(* the configuration adds UserAgent, Rewrite, CacheTTL, MaxMB and Path to   *)
(* the fields the checks read, and a request adds host and range            *)

GoproxyMB == 1048576                  \* 1024*1024: the bytes of one unit of -max-mb

\* generateMD5: one opaque symbol per input, distinct for distinct inputs
generateMD5(text) == << "md5" \o ToString(text) >>

\* getUserAgent when no -rule-host-ua and no -rule-regex-ua is given
getUserAgent(cfg) ==
    IF cfg.UserAgent # <<>> THEN cfg.UserAgent ELSE <<"g", "o", "p", "r", "o", "x", "y", "/", "1", ".", "0">>

\* the headers proxyHandler builds for the upstream request, as pairs of name
\* and value: the User-Agent and the Range of the request, if it has one
requestHeaders(q, cfg) ==
    { <<<<"U", "s", "e", "r", "-", "A", "g", "e", "n", "t">>, getUserAgent(cfg)>> }
    \cup (IF q.range # <<>> THEN { <<<<"R", "a", "n", "g", "e">>, q.range>> } ELSE {})

\* the orders in which a range over the map of headers may visit them
HeaderOrders(headers) ==
    { o \in [1..Cardinality(headers) -> headers] : Range(o) = headers }

RECURSIVE headerText(_)
headerText(order) ==
    IF order = <<>> THEN <<>>
    ELSE <<"|">> \o order[1][1] \o <<":">> \o order[1][2] \o headerText(Tail(order))

\* getCacheKey, with the order in which the range visits the headers
getCacheKey(targetURL, order) == generateMD5(targetURL \o headerText(order))

\* getCachedResponse at time t: [found, entry]
getCachedResponse(c, key, t) ==
    LET hits == { e \in c : e.key = key } IN
    IF hits = {} THEN [found |-> FALSE]
    ELSE LET entry == CHOOSE e \in hits : TRUE IN
         IF t > entry.ExpiresAt THEN [found |-> FALSE]
         ELSE [found |-> TRUE, entry |-> entry]

\* setCachedResponse at time t
setCachedResponse(c, key, data, headers, cfg, t) ==
    IF cfg.CacheTTL <= 0 THEN c
    ELSE { e \in c : e.key # key }
         \cup { [key |-> key, Data |-> data, Headers |-> headers,
                 ExpiresAt |-> t + cfg.CacheTTL] }

\* one line of rewriteM3U8
rewriteM3U8Line(raw, baseURL, proxyPath) ==
    LET line == TrimSpace(raw) IN
    IF line = <<>> \/ HasPrefix(line, <<"#">>) THEN line
    ELSE IF HasPrefix(line, <<"h", "t", "t", "p", ":", "/", "/">>) \/ HasPrefix(line, <<"h", "t", "t", "p", "s", ":", "/", "/">>)
    THEN proxyPath \o <<"?", "u", "r", "l", "=">> \o QueryEscape(line)
    ELSE IF ~HasPrefix(line, <<"/">>)
    THEN proxyPath \o <<"?", "u", "r", "l", "=">>
         \o QueryEscape(URLString(ResolveReference(baseURL,
                [BadURL EXCEPT !.err = FALSE, !.Path = line])))
    ELSE line

\* rewriteM3U8
rewriteM3U8(content, baseURL, proxyPath, cfg) ==
    IF ~cfg.Rewrite THEN content
    ELSE LET lines == Split(content, "\n") IN
         Join([i \in 1..Len(lines) |-> rewriteM3U8Line(lines[i], baseURL, proxyPath)],
              <<"\n">>)

\* what /proxy writes: status, body and Content-Type; hit when the cache
\* answered, key for the cache key it used
ProxyResponse(status, body, contentType) ==
    [status |-> status, body |-> body, contentType |-> contentType, hit |-> FALSE,
     stored |-> FALSE, key |-> <<>>, expiresAt |-> 0]

\* proxyHandler at time t with the cache c: the upstream answers up, the
\* range over the request headers visits them in order.  [resp, cache]
proxyHandler(q, cfg, c, t, up, order) ==
    LET checked   == proxyChecks(q, cfg)
        parsedURL == ParseURL(q.url)
        cacheKey  == getCacheKey(q.url, order)
        got       == getCachedResponse(c, cacheKey, t)
        same(resp) == [resp |-> resp, cache |-> c]
    IN
    IF checked # 0 THEN same(ProxyResponse(checked, <<>>, <<>>))
    ELSE IF got.found
    THEN same([ProxyResponse(200, got.entry.Data, got.entry.Headers) EXCEPT
                   !.hit = TRUE, !.key = cacheKey, !.expiresAt = got.entry.ExpiresAt])
    ELSE IF up.err THEN same(ProxyResponse(502, <<"R", "e", "q", "u", "e", "s", "t", " ", "f", "a", "i", "l", "e", "d", "\n">>, <<"t", "e", "x", "t", "/", "p", "l", "a", "i", "n">>))
    ELSE IF cfg.MaxMB > 0 /\ Len(up.body) > cfg.MaxMB * GoproxyMB
    THEN same(ProxyResponse(413, <<"R", "e", "s", "p", "o", "n", "s", "e", " ", "t", "o", "o", " ", "l", "a", "r", "g", "e", "\n">>, <<"t", "e", "x", "t", "/", "p", "l", "a", "i", "n">>))
    ELSE
    LET body == IF cfg.Rewrite
                   /\ (\/ Contains(up.contentType, <<"a", "p", "p", "l", "i", "c", "a", "t", "i", "o", "n", "/", "v", "n", "d", ".", "a", "p", "p", "l", "e", ".", "m", "p", "e", "g", "u", "r", "l">>)
                       \/ Contains(up.contentType, <<"a", "p", "p", "l", "i", "c", "a", "t", "i", "o", "n", "/", "x", "-", "m", "p", "e", "g", "U", "R", "L">>)
                       \/ HasSuffix(parsedURL.Path, <<".", "m", "3", "u", "8">>))
                THEN rewriteM3U8(up.body, parsedURL,
                                 HttpPrefix \o q.host \o cfg.Path, cfg)
                ELSE up.body
        c2   == setCachedResponse(c, cacheKey, body, up.contentType, cfg, t)
    IN [resp  |-> [ProxyResponse(up.status, body, up.contentType) EXCEPT
                       !.key = cacheKey, !.stored = c2 # c],
        cache |-> c2]

-----------------------------------------------------------------------------
(* SpecReplay: a few /proxy requests against the cache, while time passes   *)
(* and the upstream answers with a playlist, a 404, an oversized body or    *)
(* not at all.                                                              *)

ReplayMaxReqs  == 3                   \* requests in one run
ReplayMaxNow   == 2                   \* the clock runs over 0..ReplayMaxNow
ReplayCacheTTL == 1                   \* -cache-ttl, in seconds
ReplayMaxMB    == 1                   \* -max-mb

ReplayConfigs ==
    { [Allow |-> <<HostH>>, SignRequired |-> FALSE, SignSecret |-> SecretA,
       UserAgent |-> <<>>, Rewrite |-> rewrite, CacheTTL |-> ttl, MaxMB |-> mb,
       Path |-> <<"/", "p", "r", "o", "x", "y">>] :
          rewrite \in BOOLEAN, ttl \in { 0, ReplayCacheTTL }, mb \in { 0, ReplayMaxMB } }

ReplayRequests ==
    { [method |-> method, url |-> url, sign |-> <<>>, host |-> <<"p">>, range |-> range] :
          method \in { "GET", "OPTIONS" }, url \in { URLPlay, HttpPrefix \o HostO },
          range \in { <<>>, <<"b", "y", "t", "e", "s", "=", "0", "-">> } }

\* the answers of the upstream; it sends a body larger than the limit only
\* to a proxy that has a limit
ReplayAnswers ==
    { [err |-> FALSE, status |-> 200, contentType |-> <<"a", "p", "p", "l", "i", "c", "a", "t", "i", "o", "n", "/", "x", "-", "m", "p", "e", "g", "U", "R", "L">>,
       body |-> PlaylistText],
      [err |-> FALSE, status |-> 404, contentType |-> <<>>, body |-> <<"g", "o", "n", "e">>],
      [err |-> TRUE, status |-> 0, contentType |-> <<>>, body |-> <<>>] }
    \cup (IF config.MaxMB > 0
          THEN { [err |-> FALSE, status |-> 200, contentType |-> <<>>,
                  body |-> Payload(config.MaxMB * GoproxyMB + 1)] }
          ELSE {})

\* /proxy answers q.  call is the request and the response; hist.got keeps,
\* per cache key, what the request that stored the entry was answered and how
\* many bytes the upstream had sent it
ReplayServe(q, up, order) ==
    /\ hist.ops < ReplayMaxReqs
    /\ \E out \in { proxyHandler(q, config, cache, now, up, order) } :
          /\ call' = [fn |-> "proxy", q |-> q, at |-> now, resp |-> out.resp]
          /\ cache' = out.cache
          /\ hist' = [ops |-> hist.ops + 1,
                      got |-> IF out.resp.stored
                              THEN { g \in hist.got : g.key # out.resp.key }
                                   \cup { [key |-> out.resp.key, status |-> out.resp.status,
                                           body |-> out.resp.body, upLen |-> Len(up.body)] }
                              ELSE hist.got]
    /\ UNCHANGED <<now, signer, issued, config, srv, mu, thr>>

ReplayTick ==
    /\ now < ReplayMaxNow
    /\ now' = now + 1
    /\ UNCHANGED <<call, signer, issued, cache, hist, config, srv, mu, thr>>

InitReplay ==
    /\ now = 0
    /\ call = NoCall
    /\ signer = NoSigner
    /\ issued = NoToken
    /\ cache = {}
    /\ hist = [ops |-> 0, got |-> {}]
    /\ config \in ReplayConfigs
    /\ srv = NoServer
    /\ mu = NoLock
    /\ thr = NoThreads

NextReplay ==
    \/ ReplayTick
    \/ hist.ops < ReplayMaxReqs
       /\ \E q \in ReplayRequests, up \in ReplayAnswers :
              \E order \in HeaderOrders(requestHeaders(q, config)) :
                  ReplayServe(q, up, order)

SpecReplay == InitReplay /\ [][NextReplay]_vars

\* the last request was answered from the cache
ReplayHit == call.fn = "proxy" /\ call.resp.hit

\* the answer from the cache carries the body the storing request received
ReplaySameBody ==
    ReplayHit => \E g \in hist.got : g.key = call.resp.key /\ g.body = call.resp.body

\* the answer from the cache carries the status the storing request received
ReplaySameStatus ==
    ReplayHit => \E g \in hist.got : g.key = call.resp.key /\ g.status = call.resp.status

\* the entry that answered had not expired
ReplayFresh == ReplayHit => call.at <= call.resp.expiresAt

\* nothing the cache holds came from an upstream body over the limit
ReplayWithinLimit ==
    \A g \in hist.got : config.MaxMB > 0 => g.upLen <= config.MaxMB * GoproxyMB

\* C33: with -cache-ttl > 0, a /proxy request answered from the cache gets the
\* status and the body that the request which stored the entry got, never
\* from an entry past its expiry, and no response over -max-mb is stored.
C33_ReplayFidelity ==
    config.CacheTTL > 0 =>
        /\ ReplaySameStatus
        /\ ReplaySameBody
        /\ ReplayFresh
        /\ ReplayWithinLimit

====
